---- MODULE Spec2Model ----
(***************************************************************************)
(* Energy Skate Park: the live Skater facade (Skater.js), the SkaterState  *)
(* value record (SkaterState.js) and the operations that commit a          *)
(* SkaterState to the Skater.                                              *)
(*                                                                         *)
(* Units.  Lengths are counted in units of 5 mm (200 units per metre), so  *)
(* that the program's 3.5 m, 1.65 m, 2.4 m and 9.8 m/s^2 are integers;     *)
(* masses are in kg and times in seconds.  Energies are therefore in       *)
(* kg * unit^2 / s^2 and every formula keeps the shape it has in the code. *)
(* Angles are counted in quarter turns (PI = 2).                           *)
(*                                                                         *)
(* Objects.  An axon Property holds a reference.  reset() assigns the      *)
(* reference it was constructed with, and SkaterState.setToSkater writes   *)
(* x and y into whatever Vector2 the Property currently refers to.  For    *)
(* the two vectors written in place (position, velocity) the model keeps   *)
(* the contents of the construction-time Vector2 and whether the Property  *)
(* currently refers to it.                                                 *)
(***************************************************************************)
EXTENDS Integers, Sequences, FiniteSets, TLC

VARIABLES
  skater,      \* the fields of the one Skater object
  tracks,      \* track id -> the source positions of its control points
  sample,      \* the SkaterState last handed to setToSkater (none: << >>)
  lastOp,      \* name of the operation that produced the current state
  lastArgs,    \* the arguments it was called with
  states,      \* heap of SkaterState objects; the index is the identity
  call,        \* the last SkaterState method call: op, receiver, result
  ops,         \* number of operations performed so far
  graphs,      \* GraphsModel: running time, recorded samples, pause, cursor
  containedTracks, \* the tracks that model.tracks holds
  gesture      \* what the drag listeners and the tracks they act on hold

vars ==
  <<skater, tracks, sample, lastOp, lastArgs, states, call, ops, graphs,
    containedTracks, gesture>>

----------------------------------------------------------------------------
(* Values *)

\* null track reference
NoTrack == 0

\* null parametric position (released(null, null))
NullU == -1

\* a field that was never assigned (JavaScript undefined)
Undefined == << >>

Some(v) == <<v>>

\* a number that is undefined or NaN: startingAngle before the first release,
\* and whatever is computed from it
NaN == -1000000

\* Math.PI, in quarter turns
PI == 2

\* Vector2( 3.5, 0 )
DefaultPositionX == 700

DefaultPosition == <<DefaultPositionX, 0>>

\* new Vector2( 0, 0 )
ZeroVector == <<0, 0>>

\* NumberProperty( 9.8 )
DefaultGravityMagnitude == 1960

\* Constants.MASS_RANGE
MassMin == 20

MassMax == 100

\* Constants.DEFAULT_MASS, the middle of the mass range
DefaultMass == 60

\* the head is 1.65 m .. 2.4 m above the feet
MinSkaterHeight == 330

MaxSkaterHeight == 480

\* speedThreshold = 0.01 (parametric speed is in units per second)
speedThreshold == 2

----------------------------------------------------------------------------
(* Inputs of the environment *)

\* operations in one run of the Skater
MaxOps == 4

\* SkaterState method calls in one run
MaxCalls == 2

Tracks == {1}

\* parametric positions: the knots of the spline, one per control point
MaxU == 1

Us == 0 .. MaxU

Masses == {DefaultMass, MassMax}

GravityMagnitudes == {DefaultGravityMagnitude, 200}

ReferenceHeights == {0, 100}

\* heights a control point can be dragged to
ControlPointHeights == {200, 600}

\* the control points the user can drag (the end points are fixed)
DraggableControlPoints == {2}

InitialControlPoints == << <<200, 600>>, <<700, 200>>, <<1200, 600>> >>

\* the indices of a track's control points, and its two end points
ControlPoints == 1 .. 3

EndPoints == {1, 3}

\* a track still in the toolbox, in the upper right corner of the play
\* area, and a track that was taken out and dropped beside the first one
ToolboxTracks == {2}

DroppedTracks == {3}

AllTracks == Tracks \cup ToolboxTracks \cup DroppedTracks

ToolboxControlPoints == << <<1300, 1400>>, <<1500, 1400>>, <<1700, 1400>> >>

DroppedControlPoints == << <<1400, 600>>, <<1600, 400>>, <<1800, 600>> >>

\* track.dragSource = null
NoSource == 0

\* snapTarget = null
NoPoint == << >>

----------------------------------------------------------------------------
(* Track (Track.js is not among the sources: modelled from the spec) *)

\* Track.copyControlPointSources: a copy of the source positions
copyControlPointSources(t) == tracks[t]

\* Track.getPoint(u): the spline passes through control point u at knot u
getPoint(t, u) == tracks[t][u + 1]

\* Track.getViewAngleAt(u): direction of the track at u, to the quarter turn
getViewAngleAt(t, u) ==
  LET n  == Len(tracks[t])
      a  == IF u = 0 THEN 1 ELSE u
      b  == IF u + 2 > n THEN n ELSE u + 2
      dy == tracks[t][b][2] - tracks[t][a][2]
      dx == tracks[t][b][1] - tracks[t][a][1]
  IN  IF dy > dx THEN -1 ELSE IF -dy > dx THEN 1 ELSE 0

\* arrayEquals( a, b ): same length and pairwise equal
arrayEquals(a, b) ==
  IF Len(a) # Len(b) THEN FALSE
  ELSE \A i \in 1 .. Len(a) : a[i] = b[i]

----------------------------------------------------------------------------
(* Skater *)

\* Utils.linear( a1, a2, b1, b2, a3 )
linear(a1, a2, b1, b2, a3) == b1 + ((b2 - b1) * (a3 - a1)) \div (a2 - a1)

\* Math.cos and Math.sin on quarter turns
cos(a) == CASE a % 4 = 0 -> 1 [] a % 4 = 2 -> -1 [] OTHER -> 0

sin(a) == CASE a % 4 = 1 -> 1 [] a % 4 = 3 -> -1 [] OTHER -> 0

\* Track.getUnitParallelVector(u): the unit tangent of the track at u, along
\* the direction getViewAngleAt gives (the view's y axis points down)
getUnitParallelVector(t, u) ==
  <<cos(getViewAngleAt(t, u)), -sin(getViewAngleAt(t, u))>>

\* gravityProperty: DerivedProperty of gravityMagnitudeProperty
gravityProperty(s) == -s.gravityMagnitude

\* movedProperty: DerivedProperty of position, startingPosition, dragging
movedProperty(s) ==
  ~s.dragging /\ (s.position[1] # s.startingPosition[1]
                  \/ s.position[2] # s.startingPosition[2])

\* Vector2.magnitudeSquared
magnitudeSquared(v) == v[1] * v[1] + v[2] * v[2]

\* Skater.getHeadPosition
getHeadPosition(s) ==
  IF s.angle = NaN THEN <<NaN, NaN>>
  ELSE
    LET skaterHeight == linear(MassMin, MassMax, MinSkaterHeight,
                               MaxSkaterHeight, s.mass)
        vectorX == skaterHeight * cos(s.angle - PI \div 2)
        vectorY == skaterHeight * sin(s.angle - PI \div 2)
    IN  <<s.position[1] + vectorX, s.position[2] - vectorY>>

\* Skater.updateHeadPosition: written into the existing Vector2
updateHeadPosition(s) == [s EXCEPT !.headPosition = getHeadPosition(s)]

\* updatedEmitter.emit(), with its listener updateHeadPosition
emitUpdated(s) == [updateHeadPosition(s) EXCEPT !.updated = @ + 1]

\* updateEnergy whose total leaves the thermal energy out
updateEnergyWithoutThermal(s) ==
  LET ke == (s.mass * magnitudeSquared(s.velocity)) \div 2
      pe == (-s.mass) * (s.position[2] - s.referenceHeight) * gravityProperty(s)
  IN  [s EXCEPT !.kineticEnergy = ke,
                !.potentialEnergy = pe,
                !.totalEnergy = ke + pe,
                !.energyChanged = @ + 1]

\* Skater.updateEnergy
updateEnergy(s) ==
  LET ke == (s.mass * magnitudeSquared(s.velocity)) \div 2
      pe == (-s.mass) * (s.position[2] - s.referenceHeight) * gravityProperty(s)
  IN  [s EXCEPT !.kineticEnergy = ke,
                !.potentialEnergy = pe,
                !.totalEnergy = ke + pe + s.thermalEnergy,
                !.energyChanged = @ + 1]

\* positionProperty.value = v, v a Vector2 the caller has just made
setPosition(s, v) == [s EXCEPT !.position = v, !.positionIsInitial = FALSE]

\* velocityProperty.value = v, v a Vector2 the caller has just made
setVelocity(s, v) == [s EXCEPT !.velocity = v, !.velocityIsInitial = FALSE]

\* positionProperty.reset(): the value is again the construction-time Vector2
resetPositionProperty(s) ==
  [s EXCEPT !.position = s.positionInitial, !.positionIsInitial = TRUE]

\* velocityProperty.reset()
resetVelocityProperty(s) ==
  [s EXCEPT !.velocity = s.velocityInitial, !.velocityIsInitial = TRUE]

\* draggingProperty.value = d, with the listener that zeroes the velocity
setDragging(s, d) ==
  IF d = s.dragging THEN s
  ELSE LET s1 == [s EXCEPT !.dragging = d]
       IN  IF d THEN setVelocity(s1, ZeroVector) ELSE s1

\* parametricSpeedProperty.value = v, with the listener that sets direction
setParametricSpeed(s, v) ==
  IF v = s.parametricSpeed THEN s
  ELSE LET s1 == [s EXCEPT !.parametricSpeed = v]
       IN  IF v > speedThreshold
             THEN [s1 EXCEPT !.direction =
                     IF s.onTopSideOfTrack THEN "right" ELSE "left"]
           ELSE IF v < -speedThreshold
             THEN [s1 EXCEPT !.direction =
                     IF s.onTopSideOfTrack THEN "left" ELSE "right"]
           ELSE s1

\* massProperty.value = m, with the listener that calls updateEnergy
setMass(s, m) ==
  IF m = s.mass THEN s ELSE updateEnergy([s EXCEPT !.mass = m])

\* clearThermal that recomputes the energies before it zeroes the thermal
\* energy
clearThermalAfterUpdateEnergy(s) == [updateEnergy(s) EXCEPT !.thermalEnergy = 0]

\* clearThermal that zeroes the thermal energy and does not call updateEnergy
clearThermalWithoutUpdateEnergy(s) == [s EXCEPT !.thermalEnergy = 0]

\* Skater.clearThermal
clearThermal(s) == updateEnergy([s EXCEPT !.thermalEnergy = 0])

\* the Property resets shared by reset() and resetPosition(), in code order,
\* with the reference height reset or not
resetProperties(s, resetReferenceHeight) ==
  LET s1 == [s EXCEPT !.angle = 0, !.track = NoTrack,
                      !.parametricPosition = 0]
      s2 == setParametricSpeed(s1, 0)
      s3 == [s2 EXCEPT !.onTopSideOfTrack = TRUE,
                       !.gravityMagnitude = DefaultGravityMagnitude,
                       !.referenceHeight =
                          IF resetReferenceHeight THEN 0 ELSE @]
      s4 == resetPositionProperty(s3)
      s5 == setMass(s4, DefaultMass)
      s6 == resetVelocityProperty([s5 EXCEPT !.direction = "left"])
      s7 == setDragging(s6, FALSE)
  IN  [s7 EXCEPT !.kineticEnergy = 0, !.potentialEnergy = 0,
                 !.thermalEnergy = 0, !.totalEnergy = 0, !.angle = 0,
                 !.startingPosition = DefaultPosition, !.startingU = 0,
                 !.startingUp = TRUE, !.startingTrack = NoTrack]

\* Skater.reset
reset(s) == emitUpdated(updateEnergy(resetProperties(s, TRUE)))

\* resetPosition that resets the reference height as reset() does
resetPositionResettingReferenceHeight(s) ==
  LET mass == s.mass
  IN  emitUpdated(updateEnergy(setMass(resetProperties(s, TRUE), mass)))

\* Skater.resetPosition
resetPosition(s) ==
  LET mass == s.mass
  IN  emitUpdated(updateEnergy(setMass(resetProperties(s, FALSE), mass)))

\* Skater.returnToInitialPosition
returnToInitialPosition(s) ==
  LET mass == s.mass IN setMass(reset(s), mass)

\* returnSkater that does not compare the control points with the recorded ones
returnSkaterIgnoringControlPoints(s) ==
  LET onSameTrack ==
        /\ s.startingTrack # NoTrack
        /\ s.track = s.startingTrack
      s1 == IF onSameTrack
              THEN setParametricSpeed(
                     [s EXCEPT !.parametricPosition = s.startingU,
                               !.angle = s.startingAngle,
                               !.onTopSideOfTrack = s.startingUp], 0)
              ELSE [s EXCEPT !.track = NoTrack, !.angle = s.startingAngle]
      s2 == setVelocity(setPosition(s1, s.startingPosition), ZeroVector)
  IN  emitUpdated(updateEnergy(clearThermal(s2)))

\* Skater.returnSkater
returnSkater(s) ==
  LET onSameTrack ==
        /\ s.startingTrack # NoTrack
        /\ s.track = s.startingTrack
        /\ arrayEquals(copyControlPointSources(s.track),
                       s.startingTrackControlPointSources[1])
      s1 == IF onSameTrack
              THEN setParametricSpeed(
                     [s EXCEPT !.parametricPosition = s.startingU,
                               !.angle = s.startingAngle,
                               !.onTopSideOfTrack = s.startingUp], 0)
              ELSE [s EXCEPT !.track = NoTrack, !.angle = s.startingAngle]
      s2 == setVelocity(setPosition(s1, s.startingPosition), ZeroVector)
  IN  emitUpdated(updateEnergy(clearThermal(s2)))

\* released that does not record the control points of the target track
releasedWithoutControlPointCopy(s, targetTrack, targetU) ==
  LET s1 == setVelocity(setDragging(s, FALSE), ZeroVector)
      s2 == [setParametricSpeed(s1, 0) EXCEPT !.track = targetTrack,
                                             !.parametricPosition = targetU]
      s3 == IF targetTrack # NoTrack
              THEN setPosition(s2, getPoint(targetTrack, targetU))
              ELSE s2
      s4 == [s3 EXCEPT
               !.startingPosition = s3.position,
               !.startingU = targetU,
               !.startingUp = s3.onTopSideOfTrack,
               !.startingTrack = targetTrack,
               !.startingAngle = s3.angle]
  IN  emitUpdated(updateEnergy(s4))

\* Skater.released
released(s, targetTrack, targetU) ==
  LET s1 == setVelocity(setDragging(s, FALSE), ZeroVector)
      s2 == [setParametricSpeed(s1, 0) EXCEPT !.track = targetTrack,
                                             !.parametricPosition = targetU]
      s3 == IF targetTrack # NoTrack
              THEN setPosition(s2, getPoint(targetTrack, targetU))
              ELSE s2
      s4 == [s3 EXCEPT
               !.startingPosition = s3.position,
               !.startingU = targetU,
               !.startingUp = s3.onTopSideOfTrack,
               !.startingTrack = targetTrack,
               !.startingTrackControlPointSources =
                  IF targetTrack # NoTrack
                    THEN Some(copyControlPointSources(targetTrack))
                    ELSE Some(<< >>),
               !.startingAngle = s3.angle]
  IN  emitUpdated(updateEnergy(s4))

\* new Skater( tandem, options )
NewSkater ==
  LET s0 == [track |-> NoTrack,
             parametricPosition |-> 0,
             parametricSpeed |-> 0,
             onTopSideOfTrack |-> TRUE,
             gravityMagnitude |-> DefaultGravityMagnitude,
             referenceHeight |-> 0,
             position |-> DefaultPosition,
             positionInitial |-> DefaultPosition,
             positionIsInitial |-> TRUE,
             mass |-> DefaultMass,
             direction |-> "left",
             velocity |-> ZeroVector,
             velocityInitial |-> ZeroVector,
             velocityIsInitial |-> TRUE,
             dragging |-> FALSE,
             kineticEnergy |-> 0,
             potentialEnergy |-> 0,
             thermalEnergy |-> 0,
             totalEnergy |-> 0,
             angle |-> 0,
             startingPosition |-> DefaultPosition,
             startingU |-> 0,
             startingUp |-> TRUE,
             startingTrack |-> NoTrack,
             startingTrackControlPointSources |-> Undefined,
             startingAngle |-> NaN,
             headPosition |-> ZeroVector,
             updated |-> 0,
             energyChanged |-> 0]
  IN  updateEnergy([s0 EXCEPT !.headPosition = getHeadPosition(s0)])

----------------------------------------------------------------------------
(* SkaterState *)

\* const EMPTY_OBJECT = {}
EMPTY_OBJECT == [key \in {} |-> 0]

\* the fields setState assigns
SkaterStateKeys ==
  {"positionX", "positionY", "velocityX", "velocityY", "gravity",
   "referenceHeight", "mass", "track", "angle", "onTopSideOfTrack",
   "parametricPosition", "parametricSpeed", "dragging", "thermalEnergy"}

\* what setState reads of a Skater: position and velocity through
\* positionProperty and velocityProperty, the rest through getValue
SkaterSource(s) ==
  [positionX |-> s.position[1],
   positionY |-> s.position[2],
   velocityX |-> s.velocity[1],
   velocityY |-> s.velocity[2],
   gravity |-> gravityProperty(s),
   referenceHeight |-> s.referenceHeight,
   mass |-> s.mass,
   track |-> s.track,
   angle |-> s.angle,
   onTopSideOfTrack |-> s.onTopSideOfTrack,
   parametricPosition |-> s.parametricPosition,
   parametricSpeed |-> s.parametricSpeed,
   dragging |-> s.dragging,
   thermalEnergy |-> s.thermalEnergy]

\* getValue( key, source, overrides )
getValue(key, source, overrides) ==
  IF key \in DOMAIN overrides THEN overrides[key] ELSE source[key]

\* the field values SkaterState.setState( source, overrides ) assigns to this
setStateFields(source, overrides) ==
  [key \in SkaterStateKeys |-> getValue(key, source, overrides)]

\* getTotalEnergy that leaves the reference height out of the potential energy
getTotalEnergyFromGround(st) ==
  (st.mass * (st.velocityX * st.velocityX + st.velocityY * st.velocityY)) \div 2
    - st.mass * st.gravity * st.positionY
    + st.thermalEnergy

\* SkaterState.getTotalEnergy
getTotalEnergy(st) ==
  (st.mass * (st.velocityX * st.velocityX + st.velocityY * st.velocityY)) \div 2
    - st.mass * st.gravity * (st.positionY - st.referenceHeight)
    + st.thermalEnergy

\* SkaterState.getKineticEnergy
getKineticEnergy(st) ==
  (st.mass * (st.velocityX * st.velocityX + st.velocityY * st.velocityY)) \div 2

\* SkaterState.getPotentialEnergy
getPotentialEnergy(st) ==
  (-st.mass) * st.gravity * (st.positionY - st.referenceHeight)

\* setToSkater whose angle does not add PI on the underside of the track
setToSkaterAngleIgnoringSide(st, s) ==
  LET s1 == [s EXCEPT
               !.track = st.track,
               !.position = <<st.positionX, st.positionY>>,
               !.positionInitial =
                  IF s.positionIsInitial
                    THEN <<st.positionX, st.positionY>> ELSE @,
               !.velocity = <<st.velocityX, st.velocityY>>,
               !.velocityInitial =
                  IF s.velocityIsInitial
                    THEN <<st.velocityX, st.velocityY>> ELSE @,
               !.parametricPosition = st.parametricPosition]
      s2 == setParametricSpeed(s1, st.parametricSpeed)
      s3 == [s2 EXCEPT !.thermalEnergy = st.thermalEnergy,
                       !.onTopSideOfTrack = st.onTopSideOfTrack]
      s4 == [s3 EXCEPT !.angle =
               IF s3.track # NoTrack
                 THEN getViewAngleAt(s3.track, st.parametricPosition)
                 ELSE st.angle]
  IN  updateEnergy(s4)

\* SkaterState.setToSkater( skater )
setToSkater(st, s) ==
  LET s1 == [s EXCEPT
               !.track = st.track,
               !.position = <<st.positionX, st.positionY>>,
               !.positionInitial =
                  IF s.positionIsInitial
                    THEN <<st.positionX, st.positionY>> ELSE @,
               !.velocity = <<st.velocityX, st.velocityY>>,
               !.velocityInitial =
                  IF s.velocityIsInitial
                    THEN <<st.velocityX, st.velocityY>> ELSE @,
               !.parametricPosition = st.parametricPosition]
      s2 == setParametricSpeed(s1, st.parametricSpeed)
      s3 == [s2 EXCEPT !.thermalEnergy = st.thermalEnergy,
                       !.onTopSideOfTrack = st.onTopSideOfTrack]
      s4 == [s3 EXCEPT !.angle =
               IF s3.track # NoTrack
                 THEN getViewAngleAt(s3.track, st.parametricPosition)
                        + (IF st.onTopSideOfTrack THEN 0 ELSE PI)
                 ELSE st.angle]
  IN  updateEnergy(s4)

(* Methods on the heap of SkaterState objects.  Each takes the heap h and   *)
(* the receiver this, and yields the heap afterwards and the reference it   *)
(* returns.                                                                 *)

\* new SkaterState( source, overrides ): a fresh object, then setState
newSkaterState(h, source, overrides) ==
  [heap |-> Append(h, setStateFields(source, overrides)), ref |-> Len(h) + 1]

\* the result of a method that allocates with new SkaterState( this,
\* EMPTY_OBJECT ) and then assigns the fields of changes to the new object
derive(h, this, changes) ==
  LET n == newSkaterState(h, h[this], EMPTY_OBJECT)
  IN  [heap |-> [n.heap EXCEPT ![n.ref] =
                   [key \in SkaterStateKeys |->
                      IF key \in DOMAIN changes THEN changes[key] ELSE @[key]]],
       ref |-> n.ref]

\* SkaterState.setState( source, overrides ): assigns to this, returns this
setState(h, this, source, overrides) ==
  [heap |-> [h EXCEPT ![this] = setStateFields(source, overrides)],
   ref |-> this]

\* SkaterState.update( overrides )
update(h, this, overrides) == newSkaterState(h, h[this], overrides)

\* SkaterState.updateTrackUD
updateTrackUD(h, this, track, parametricSpeed) ==
  derive(h, this, [track |-> track, parametricSpeed |-> parametricSpeed])

\* SkaterState.updateUUDVelocityPosition
updateUUDVelocityPosition(h, this, parametricPosition, parametricSpeed, velocityX, velocityY, positionX, positionY) ==
  derive(h, this, [parametricPosition |-> parametricPosition,
                   parametricSpeed |-> parametricSpeed,
                   velocityX |-> velocityX, velocityY |-> velocityY,
                   positionX |-> positionX, positionY |-> positionY])

\* SkaterState.updatePositionAngleUpVelocity
updatePositionAngleUpVelocity(h, this, positionX, positionY, angle, onTopSideOfTrack, velocityX, velocityY) ==
  derive(h, this, [angle |-> angle, onTopSideOfTrack |-> onTopSideOfTrack,
                   velocityX |-> velocityX, velocityY |-> velocityY,
                   positionX |-> positionX, positionY |-> positionY])

\* an assertion that only requires a number
assertThermalEnergyIsNumber(thermalEnergy) == thermalEnergy \in Int

\* assert && assert( thermalEnergy >= 0 ), the first statement of
\* updateThermalEnergy, switchToGround, strikeGround and attachToTrack: the
\* call goes on to allocate its result only if it holds
assertThermalEnergy(thermalEnergy) == thermalEnergy >= 0

\* SkaterState.updateThermalEnergy
updateThermalEnergy(h, this, thermalEnergy) ==
  derive(h, this, [thermalEnergy |-> thermalEnergy])

\* SkaterState.updateUPosition
updateUPosition(h, this, parametricPosition, positionX, positionY) ==
  derive(h, this, [parametricPosition |-> parametricPosition,
                   positionX |-> positionX, positionY |-> positionY])

\* SkaterState.switchToGround
switchToGround(h, this, thermalEnergy, velocityX, velocityY, positionX, positionY) ==
  derive(h, this, [thermalEnergy |-> thermalEnergy, track |-> NoTrack,
                   onTopSideOfTrack |-> TRUE, angle |-> 0,
                   velocityX |-> velocityX, velocityY |-> velocityY,
                   positionX |-> positionX, positionY |-> positionY])

\* strikeGround that stops the fall but keeps the horizontal velocity
strikeGroundSliding(h, this, thermalEnergy, positionX) ==
  derive(h, this, [thermalEnergy |-> thermalEnergy, positionX |-> positionX,
                   positionY |-> 0, velocityY |-> 0,
                   angle |-> 0, onTopSideOfTrack |-> TRUE])

\* SkaterState.strikeGround
strikeGround(h, this, thermalEnergy, positionX) ==
  derive(h, this, [thermalEnergy |-> thermalEnergy, positionX |-> positionX,
                   positionY |-> 0, velocityX |-> 0, velocityY |-> 0,
                   angle |-> 0, onTopSideOfTrack |-> TRUE])

\* copy that starts the new state without the accumulated thermal energy
copyWithoutThermalEnergy(h, this) ==
  newSkaterState(h, h[this], [thermalEnergy |-> 0])

\* SkaterState.copy
copy(h, this) == newSkaterState(h, h[this], EMPTY_OBJECT)

\* leaveTrack that also stops the skater
leaveTrackAtRest(h, this) ==
  derive(h, this, [parametricSpeed |-> 0, track |-> NoTrack,
                   velocityX |-> 0, velocityY |-> 0])

\* SkaterState.leaveTrack
leaveTrack(h, this) ==
  derive(h, this, [parametricSpeed |-> 0, track |-> NoTrack])

\* SkaterState.updatePosition
updatePosition(h, this, positionX, positionY) ==
  derive(h, this, [positionX |-> positionX, positionY |-> positionY])

\* SkaterState.updateUDVelocity
updateUDVelocity(h, this, parametricSpeed, velocityX, velocityY) ==
  derive(h, this, [parametricSpeed |-> parametricSpeed,
                   velocityX |-> velocityX, velocityY |-> velocityY])

\* SkaterState.continueFreeFall
continueFreeFall(h, this, velocityX, velocityY, positionX, positionY) ==
  derive(h, this, [velocityX |-> velocityX, velocityY |-> velocityY,
                   positionX |-> positionX, positionY |-> positionY])

\* attachToTrack that leaves the velocity of the state as it was
attachToTrackKeepingVelocity(h, this, thermalEnergy, track, onTopSideOfTrack, parametricPosition, parametricSpeed, velocityX, velocityY, positionX, positionY) ==
  derive(h, this, [thermalEnergy |-> thermalEnergy, track |-> track,
                   onTopSideOfTrack |-> onTopSideOfTrack,
                   parametricPosition |-> parametricPosition,
                   parametricSpeed |-> parametricSpeed,
                   positionX |-> positionX, positionY |-> positionY])

\* SkaterState.attachToTrack
attachToTrack(h, this, thermalEnergy, track, onTopSideOfTrack, parametricPosition, parametricSpeed, velocityX, velocityY, positionX, positionY) ==
  derive(h, this, [thermalEnergy |-> thermalEnergy, track |-> track,
                   onTopSideOfTrack |-> onTopSideOfTrack,
                   parametricPosition |-> parametricPosition,
                   parametricSpeed |-> parametricSpeed,
                   velocityX |-> velocityX, velocityY |-> velocityY,
                   positionX |-> positionX, positionY |-> positionY])

----------------------------------------------------------------------------
(* The Skater under its commands, property changes and commits *)

\* the notification counters count the emissions of one operation
begin(s) == [s EXCEPT !.updated = 0, !.energyChanged = 0]

\* states an integrator step hands to setToSkater: free fall, on a track
\* (either side, either direction, with or without friction heat), on the
\* ground after an impact
StepOverrides ==
  {[track |-> NoTrack, positionX |-> 300, positionY |-> 400,
    velocityX |-> 200, velocityY |-> -200, parametricSpeed |-> 0]}
  \cup
  {[track |-> t, parametricPosition |-> u,
    positionX |-> getPoint(t, u)[1], positionY |-> getPoint(t, u)[2],
    velocityX |-> 200, velocityY |-> 0, parametricSpeed |-> m[1],
    onTopSideOfTrack |-> m[2], thermalEnergy |-> m[3]] :
      t \in Tracks, u \in Us, m \in {<<300, TRUE, 0>>, <<-300, FALSE, 500>>}}
  \cup
  {[track |-> NoTrack, positionX |-> 300, positionY |-> 0,
    velocityX |-> 0, velocityY |-> 0, parametricSpeed |-> 0,
    angle |-> 0, onTopSideOfTrack |-> TRUE, thermalEnergy |-> 500]}

\* GraphsModel constructor: no samples, running time 0; the model is not
\* paused and the cursor of the energy plot is not held
NewGraphsModel ==
  [runningTime |-> 0,
   skaterSamples |-> << >>,
   paused |-> FALSE,
   pausedOnDragStart |-> FALSE,
   cursorDragging |-> FALSE,
   sampleTime |-> 0,
   stepModelCalls |-> 0]

\* the drag listeners after construction, and the flags of the tracks they
\* act on: SkaterNode has no target; a track of the toolbox is not physical,
\* not dropped and draggable, every other track is an unmodified track in
\* the play area; no control point is held or has a snap target, and nothing
\* has been forwarded to a track drag handler
NewGesture ==
  [targetTrack |-> NoTrack,
   targetU |-> NullU,
   skaterPressed |-> FALSE,
   track |-> [t \in AllTracks |->
                [physical |-> t \notin ToolboxTracks,
                 dropped |-> t \notin ToolboxTracks,
                 draggable |-> t \in ToolboxTracks,
                 splittable |-> TRUE,
                 dragging |-> FALSE,
                 dragSource |-> NoSource,
                 slopeToGround |-> TRUE,
                 controlPointDragging |-> [i \in ControlPoints |-> FALSE],
                 controlPointPressed |-> [i \in ControlPoints |-> FALSE],
                 dragEvents |-> [i \in ControlPoints |-> 0],
                 snapTarget |-> [i \in ControlPoints |-> NoPoint],
                 lastDragPoint |-> Undefined,
                 overTrackPanel |-> FALSE,
                 forwarded |-> << >>,
                 trackModified |-> 0,
                 controlPointUIShown |-> FALSE]]]

Init ==
  /\ skater = NewSkater
  /\ tracks = [t \in AllTracks |->
                 IF t \in ToolboxTracks THEN ToolboxControlPoints
                 ELSE IF t \in DroppedTracks THEN DroppedControlPoints
                 ELSE InitialControlPoints]
  /\ sample = Undefined
  /\ lastOp = "new"
  /\ lastArgs = << >>
  /\ states = << >>
  /\ call = [op |-> "none", this |-> 0, result |-> 0, before |-> Undefined]
  /\ ops = 0
  /\ graphs = NewGraphsModel
  /\ containedTracks = AllTracks
  /\ gesture = NewGesture

\* one more operation of the run
Op(name, args) ==
  /\ ops < MaxOps
  /\ ops' = ops + 1
  /\ lastOp' = name
  /\ lastArgs' = args

Reset ==
  /\ skater' = reset(begin(skater))
  /\ Op("reset", << >>)
  /\ UNCHANGED <<tracks, sample, states, call, graphs, containedTracks, gesture>>

ResetPosition ==
  /\ skater' = resetPosition(begin(skater))
  /\ Op("resetPosition", << >>)
  /\ UNCHANGED <<tracks, sample, states, call, graphs, containedTracks, gesture>>

ReturnToInitialPosition ==
  /\ skater' = returnToInitialPosition(begin(skater))
  /\ Op("returnToInitialPosition", << >>)
  /\ UNCHANGED <<tracks, sample, states, call, graphs, containedTracks, gesture>>

ReturnSkater ==
  /\ skater' = returnSkater(begin(skater))
  /\ Op("returnSkater", << >>)
  /\ UNCHANGED <<tracks, sample, states, call, graphs, containedTracks, gesture>>

Released ==
  /\ \E target \in {<<NoTrack, NullU>>} \cup (Tracks \X Us) :
       /\ skater' = released(begin(skater), target[1], target[2])
       /\ Op("released", target)
  /\ UNCHANGED <<tracks, sample, states, call, graphs, containedTracks, gesture>>

UpdateEnergy ==
  /\ skater' = updateEnergy(begin(skater))
  /\ Op("updateEnergy", << >>)
  /\ UNCHANGED <<tracks, sample, states, call, graphs, containedTracks, gesture>>

ClearThermal ==
  /\ skater' = clearThermal(begin(skater))
  /\ Op("clearThermal", << >>)
  /\ UNCHANGED <<tracks, sample, states, call, graphs, containedTracks, gesture>>

\* the mass slider: massProperty.set
SetMass ==
  /\ \E m \in Masses \ {skater.mass} : skater' = setMass(begin(skater), m)
  /\ Op("setMass", << >>)
  /\ UNCHANGED <<tracks, sample, states, call, graphs, containedTracks, gesture>>

\* the gravity slider: gravityMagnitudeProperty.set, which has no listener
SetGravityMagnitude ==
  /\ \E g \in GravityMagnitudes \ {skater.gravityMagnitude} :
       skater' = [begin(skater) EXCEPT !.gravityMagnitude = g]
  /\ Op("setGravityMagnitude", << >>)
  /\ UNCHANGED <<tracks, sample, states, call, graphs, containedTracks, gesture>>

\* the reference-height line: referenceHeightProperty.set, no listener
SetReferenceHeight ==
  /\ \E r \in ReferenceHeights \ {skater.referenceHeight} :
       skater' = [begin(skater) EXCEPT !.referenceHeight = r]
  /\ Op("setReferenceHeight", << >>)
  /\ UNCHANGED <<tracks, sample, states, call, graphs, containedTracks, gesture>>

\* a step's result committed: new SkaterState( skater ), transformed, then
\* setToSkater( skater )
SetToSkater ==
  /\ \E overrides \in StepOverrides :
       LET st == setStateFields(SkaterSource(skater), overrides)
       IN  /\ sample' = Some(st)
           /\ skater' = setToSkater(st, begin(skater))
  /\ Op("setToSkater", << >>)
  /\ UNCHANGED <<tracks, states, call, graphs, containedTracks, gesture>>

\* EnergyPlot cursorOptions.drag: a recorded sample committed again
CursorDrag ==
  /\ sample # Undefined
  /\ skater' = emitUpdated(setToSkater(sample[1], begin(skater)))
  /\ Op("cursorDrag", << >>)
  /\ UNCHANGED <<tracks, sample, states, call, graphs, containedTracks, gesture>>

\* a control point of a track dragged to another height
MoveControlPoint ==
  /\ \E t \in Tracks, i \in DraggableControlPoints,
          y \in ControlPointHeights :
       /\ tracks[t][i][2] # y
       /\ tracks' = [tracks EXCEPT ![t][i][2] = y]
  /\ Op("moveControlPoint", << >>)
  /\ skater' = begin(skater)
  /\ UNCHANGED <<sample, states, call, graphs, containedTracks, gesture>>

Next ==
  \/ Reset
  \/ ResetPosition
  \/ ReturnToInitialPosition
  \/ ReturnSkater
  \/ Released
  \/ UpdateEnergy
  \/ ClearThermal
  \/ SetMass
  \/ SetGravityMagnitude
  \/ SetReferenceHeight
  \/ SetToSkater
  \/ CursorDrag
  \/ MoveControlPoint

Spec == Init /\ [][Next]_vars

----------------------------------------------------------------------------
(* SkaterState objects under their methods *)

\* arguments the integrator passes
Positions == {<<300, 400>>, <<500, -100>>}

Velocities == {<<200, -200>>, <<0, 0>>}

Thermals == {0, 500}

\* a thermal energy the assertions of the transforms reject
RejectedThermal == -100

\* parametric position, parametric speed and side of an attachment
Attachments == {<<0, 300, TRUE>>, <<MaxU, -300, FALSE>>}

OverrideObjects ==
  {EMPTY_OBJECT, [mass |-> MassMax],
   [positionY |-> 0, velocityX |-> 0, velocityY |-> 0]}

\* a method call on receiver this that ended with result r
Called(name, this, r) ==
  /\ ops < MaxCalls
  /\ ops' = ops + 1
  /\ states' = r.heap
  /\ call' = [op |-> name, this |-> this, result |-> r.ref,
              before |-> IF this = 0 THEN Undefined ELSE Some(states[this])]
  /\ UNCHANGED <<skater, tracks, sample, lastOp, lastArgs, graphs,
                 containedTracks, gesture>>

\* a free fall that a step has taken below the ground, tilted, with thermal
\* energy from an earlier landing
FallenOverrides ==
  {[track |-> NoTrack, positionX |-> 500, positionY |-> -100,
    velocityX |-> 200, velocityY |-> -200, parametricSpeed |-> 0,
    angle |-> 1, thermalEnergy |-> 500]}

\* a free fall that a step has brought onto the surface of a track, moving
\* towards it
LandingOverrides ==
  {[track |-> NoTrack, positionX |-> getPoint(t, u)[1],
    positionY |-> getPoint(t, u)[2], velocityX |-> 200, velocityY |-> -200,
    parametricSpeed |-> 0, thermalEnergy |-> th] :
      t \in Tracks, u \in Us, th \in Thermals}

\* new SkaterState( skater, overrides )
NewSkaterState ==
  \E overrides \in StepOverrides \cup {EMPTY_OBJECT} \cup FallenOverrides
                    \cup LandingOverrides :
    Called("new", 0, newSkaterState(states, SkaterSource(skater), overrides))

CallSetState ==
  \E this \in DOMAIN states, overrides \in OverrideObjects,
     source \in {SkaterSource(skater)} \cup {states[i] : i \in DOMAIN states} :
    Called("setState", this, setState(states, this, source, overrides))

CallUpdate ==
  \E this \in DOMAIN states, overrides \in OverrideObjects :
    Called("update", this, update(states, this, overrides))

CallUpdateTrackUD ==
  \E this \in DOMAIN states, t \in Tracks \cup {NoTrack}, a \in Attachments :
    Called("updateTrackUD", this, updateTrackUD(states, this, t, a[2]))

CallUpdateUUDVelocityPosition ==
  \E this \in DOMAIN states, a \in Attachments, v \in Velocities,
     p \in Positions :
    Called("updateUUDVelocityPosition", this,
           updateUUDVelocityPosition(states, this, a[1], a[2], v[1], v[2],
                                     p[1], p[2]))

CallUpdatePositionAngleUpVelocity ==
  \E this \in DOMAIN states, p \in Positions, a \in Attachments,
     v \in Velocities :
    Called("updatePositionAngleUpVelocity", this,
           updatePositionAngleUpVelocity(states, this, p[1], p[2],
                                         IF a[3] THEN 0 ELSE 1, a[3],
                                         v[1], v[2]))

CallUpdateThermalEnergy ==
  \E this \in DOMAIN states, th \in Thermals \cup {RejectedThermal} :
    /\ assertThermalEnergy(th)
    /\ Called("updateThermalEnergy", this, updateThermalEnergy(states, this, th))

CallUpdateUPosition ==
  \E this \in DOMAIN states, u \in Us, p \in Positions :
    Called("updateUPosition", this,
           updateUPosition(states, this, u, p[1], p[2]))

CallSwitchToGround ==
  \E this \in DOMAIN states, th \in Thermals \cup {RejectedThermal},
     v \in Velocities, p \in Positions :
    /\ assertThermalEnergy(th)
    /\ Called("switchToGround", this,
              switchToGround(states, this, th, v[1], v[2], p[1], 0))

CallStrikeGround ==
  \E this \in DOMAIN states, th \in Thermals \cup {RejectedThermal},
     p \in Positions :
    /\ assertThermalEnergy(th)
    /\ Called("strikeGround", this, strikeGround(states, this, th, p[1]))

CallCopy ==
  \E this \in DOMAIN states : Called("copy", this, copy(states, this))

CallLeaveTrack ==
  \E this \in DOMAIN states :
    Called("leaveTrack", this, leaveTrack(states, this))

CallUpdatePosition ==
  \E this \in DOMAIN states, p \in Positions :
    Called("updatePosition", this, updatePosition(states, this, p[1], p[2]))

CallUpdateUDVelocity ==
  \E this \in DOMAIN states, a \in Attachments, v \in Velocities :
    Called("updateUDVelocity", this,
           updateUDVelocity(states, this, a[2], v[1], v[2]))

CallContinueFreeFall ==
  \E this \in DOMAIN states, v \in Velocities, p \in Positions :
    Called("continueFreeFall", this,
           continueFreeFall(states, this, v[1], v[2], p[1], p[2]))

CallAttachToTrack ==
  \E this \in DOMAIN states, th \in Thermals \cup {RejectedThermal},
     t \in Tracks, a \in Attachments, v \in Velocities :
    /\ assertThermalEnergy(th)
    /\ Called("attachToTrack", this,
              attachToTrack(states, this, th, t, a[3], a[1], a[2], v[1], v[2],
                            getPoint(t, a[1])[1], getPoint(t, a[1])[2]))

\* the ground strike of a free-fall step: a state that fell below y = 0 goes
\* through strikeGround with its thermal energy plus its kinetic energy
StepStrikeGround ==
  \E this \in DOMAIN states :
    /\ states[this].track = NoTrack
    /\ states[this].positionY < 0
    /\ LET thermalEnergy ==
             states[this].thermalEnergy + getKineticEnergy(states[this])
       IN  /\ assertThermalEnergy(thermalEnergy)
           /\ Called("groundStrike", this,
                     strikeGround(states, this, thermalEnergy,
                                  states[this].positionX))

\* the landing of a free-fall step, followed at once by leaveTrack: a state on
\* the surface of track t at u is attached there with the component of its
\* velocity along the track, the kinetic energy of the other component going
\* to thermal energy
StepAttachThenLeave ==
  \E this \in DOMAIN states, t \in Tracks, u \in Us :
    /\ states[this].track = NoTrack
    /\ <<states[this].positionX, states[this].positionY>> = getPoint(t, u)
    /\ LET st == states[this]
           tangent == getUnitParallelVector(t, u)
           speed == st.velocityX * tangent[1] + st.velocityY * tangent[2]
           velocityX == speed * tangent[1]
           velocityY == speed * tangent[2]
           thermalEnergy ==
             st.thermalEnergy + getKineticEnergy(st)
               - (st.mass * (velocityX * velocityX + velocityY * velocityY))
                   \div 2
           attached == attachToTrack(states, this, thermalEnergy, t, TRUE, u,
                                     speed, velocityX, velocityY,
                                     getPoint(t, u)[1], getPoint(t, u)[2])
       IN  /\ assertThermalEnergy(thermalEnergy)
           /\ Called("attachThenLeave", this,
                     leaveTrack(attached.heap, attached.ref))

\* states[this].setToSkater( skater ): the commit that ends a step
CallSetToSkater ==
  \E this \in DOMAIN states :
    /\ ops < MaxCalls
    /\ ops' = ops + 1
    /\ skater' = setToSkater(states[this], begin(skater))
    /\ call' = [op |-> "setToSkater", this |-> this, result |-> this,
                before |-> Some(states[this])]
    /\ UNCHANGED <<states, tracks, sample, lastOp, lastArgs, graphs,
                   containedTracks, gesture>>

NextState ==
  \/ NewSkaterState
  \/ CallSetState
  \/ CallUpdate
  \/ CallUpdateTrackUD
  \/ CallUpdateUUDVelocityPosition
  \/ CallUpdatePositionAngleUpVelocity
  \/ CallUpdateThermalEnergy
  \/ CallUpdateUPosition
  \/ CallSwitchToGround
  \/ CallStrikeGround
  \/ CallCopy
  \/ CallLeaveTrack
  \/ CallUpdatePosition
  \/ CallUpdateUDVelocity
  \/ CallContinueFreeFall
  \/ CallAttachToTrack
  \/ CallSetToSkater
  \/ StepStrikeGround
  \/ StepAttachThenLeave

SpecState == Init /\ [][NextState]_vars

----------------------------------------------------------------------------
(* The skater's drag listener (SkaterNode) *)

\* Vector2.distance, squared
distanceSquared(p, q) ==
  (p[1] - q[1]) * (p[1] - q[1]) + (p[2] - q[2]) * (p[2] - q[2])

\* drag: distance < 0.5 (metres) snaps the skater to the track
SnapDistance == 100

\* where the pointer can be: within reach of a track, and away from all
PointerPositions == {<<720, 230>>, <<300, 900>>}

\* model.getPhysicalTracks()
getPhysicalTracks(contained, g) == {t \in contained : g.track[t].physical}

\* Track.getUnitNormalVector(u): the tangent turned a quarter turn
getUnitNormalVector(t, u) ==
  <<-getUnitParallelVector(t, u)[2], getUnitParallelVector(t, u)[1]>>

\* model.getClosestTrackAndPositionAndParameter( position, tracks ): the
\* nearest point of the tracks, with its track and parameter (none: << >>)
getClosestTrackAndPositionAndParameter(position, physicalTracks) ==
  IF physicalTracks = {} THEN Undefined
  ELSE LET candidates == physicalTracks \X Us
           c == CHOOSE c \in candidates : \A d \in candidates :
                  distanceSquared(getPoint(c[1], c[2]), position)
                    <= distanceSquared(getPoint(d[1], d[2]), position)
       IN  Some([track |-> c[1], u |-> c[2], point |-> getPoint(c[1], c[2])])

\* SkaterNode drag handler, drag: yields the skater and the listener's target
skaterNodeDrag(s, g, position, physicalTracks) ==
  LET closest == getClosestTrackAndPositionAndParameter(position, physicalTracks)
      closeEnough ==
        /\ closest # Undefined
        /\ distanceSquared(closest[1].point, position)
             < SnapDistance * SnapDistance
  IN  IF closeEnough
        THEN LET targetTrack == closest[1].track
                 targetU == closest[1].u
                 up == getUnitNormalVector(targetTrack, targetU)[2] > 0
                 s1 == [s EXCEPT
                          !.onTopSideOfTrack = up,
                          !.angle = getViewAngleAt(targetTrack, targetU)
                                      + (IF up THEN 0 ELSE PI)]
                 s2 == setPosition(s1, getPoint(targetTrack, targetU))
             IN  [skater |-> emitUpdated(updateEnergy(s2)),
                  gesture |-> [g EXCEPT !.targetTrack = targetTrack,
                                        !.targetU = targetU]]
        ELSE LET s1 == [s EXCEPT !.angle = 0, !.onTopSideOfTrack = TRUE]
                 s2 == setPosition(s1, position)
             IN  [skater |-> emitUpdated(updateEnergy(s2)),
                  gesture |-> [g EXCEPT !.targetTrack = NoTrack,
                                        !.targetU = NullU]]

\* SkaterNode drag handler, start
skaterNodeStart(s, g, position, physicalTracks) ==
  LET s1 == setDragging(s, TRUE)
      s2 == [s1 EXCEPT !.thermalEnergy = 0]
  IN  skaterNodeDrag(s2, g, position, physicalTracks)

\* SkaterNode drag handler, end
skaterNodeEnd(s, g) ==
  LET s1 == setDragging(s, FALSE)
      s2 == setVelocity(s1, ZeroVector)
      s3 == setParametricSpeed(s2, 0)
      s4 == [s3 EXCEPT !.track = g.targetTrack,
                       !.parametricPosition = g.targetU]
      s5 == IF g.targetTrack # NoTrack
              THEN setPosition(s4, getPoint(g.targetTrack, g.targetU))
              ELSE s4
      s6 == [s5 EXCEPT !.startingPosition = s5.position,
                       !.startingU = g.targetU,
                       !.startingUp = s5.onTopSideOfTrack,
                       !.startingTrack = g.targetTrack]
  IN  emitUpdated(updateEnergy(s6))

\* the pointer goes down on the skater
SkaterDragStart ==
  /\ ~gesture.skaterPressed
  /\ \E position \in PointerPositions :
       LET r == skaterNodeStart(begin(skater), gesture, position,
                                getPhysicalTracks(containedTracks, gesture))
       IN  /\ skater' = r.skater
           /\ gesture' = [r.gesture EXCEPT !.skaterPressed = TRUE]
           /\ Op("skaterDragStart", position)
  /\ UNCHANGED <<tracks, sample, states, call, graphs, containedTracks>>

\* the pointer moves while it holds the skater
SkaterDrag ==
  /\ gesture.skaterPressed
  /\ \E position \in PointerPositions :
       LET r == skaterNodeDrag(begin(skater), gesture, position,
                               getPhysicalTracks(containedTracks, gesture))
       IN  /\ skater' = r.skater
           /\ gesture' = r.gesture
           /\ Op("skaterDrag", position)
  /\ UNCHANGED <<tracks, sample, states, call, graphs, containedTracks>>

\* the pointer lets go of the skater
SkaterDragEnd ==
  /\ gesture.skaterPressed
  /\ skater' = skaterNodeEnd(begin(skater), gesture)
  /\ gesture' = [gesture EXCEPT !.skaterPressed = FALSE]
  /\ Op("skaterDragEnd", <<gesture.targetTrack, gesture.targetU>>)
  /\ UNCHANGED <<tracks, sample, states, call, graphs, containedTracks>>

----------------------------------------------------------------------------
(* The Graphs screen: GraphsModel and the cursor of the energy plot *)

\* the time of one tick.  The times of the Graphs screen are counted in
\* thirds of a tick, so that the cursor of the plot, which moves with the
\* pointer, can lie between two recorded samples
Dt == 3

\* GraphsConstants.MAX_TIME: samples are recorded before this running time
MaxTime == 9

\* what EnergySkateParkModel.stepModel can return for a state: the state
\* itself, or the state moved by the integrator
StepResults == StepOverrides \cup {EMPTY_OBJECT}

\* GraphsModel.stepModel( dt, skaterState ), updatedState being what the
\* stepModel of the parent class returned
stepModel(gm, dt, updatedState) ==
  LET runningTime == gm.runningTime + dt
  IN  [gm EXCEPT
         !.runningTime = runningTime,
         !.skaterSamples =
            IF runningTime < MaxTime
              THEN Append(@, [time |-> runningTime, state |-> updatedState])
              ELSE @,
         !.stepModelCalls = @ + 1]

\* the step of the parent class: unless the model is paused or the skater
\* is dragged, a copy of the skater is stepped and the result committed
stepOfParent(s, gm, dt, overrides) ==
  IF gm.paused \/ s.dragging
    THEN [skater |-> s, graphs |-> gm]
    ELSE LET updatedState == setStateFields(SkaterSource(s), overrides)
         IN  [skater |-> emitUpdated(setToSkater(updatedState, s)),
              graphs |-> stepModel(gm, dt, updatedState)]

\* GraphsModel.step that leaves a dragged skater alone
stepNotWhileDragging(s, gm, dt, overrides) ==
  stepOfParent(s, gm, dt, overrides)

\* GraphsModel.step( dt ); overrides is what the integrator changes
step(s, gm, dt, overrides) ==
  LET parent == stepOfParent(s, gm, dt, overrides)
  IN  IF parent.skater.dragging
        THEN LET initialStateCopy ==
                   setStateFields(SkaterSource(parent.skater), EMPTY_OBJECT)
                 updatedState == setStateFields(initialStateCopy, overrides)
             IN  [skater |-> parent.skater,
                  graphs |-> stepModel(parent.graphs, dt, updatedState)]
        ELSE parent

\* GraphsModel.getClosestSkaterState( time ): _.sortedIndexBy, clamped
getClosestSkaterState(gm, time) ==
  LET sortedIndex ==
        Cardinality({i \in DOMAIN gm.skaterSamples :
                       gm.skaterSamples[i].time < time})
      last == Len(gm.skaterSamples) - 1
      nearestIndex == IF sortedIndex > last THEN last ELSE sortedIndex
  IN  nearestIndex + 1

\* an animation frame
GraphsStep ==
  /\ \E overrides \in StepResults :
       LET r == step(begin(skater), [graphs EXCEPT !.stepModelCalls = 0],
                     Dt, overrides)
       IN  /\ skater' = r.skater
           /\ graphs' = r.graphs
  /\ Op("step", <<skater.dragging>>)
  /\ UNCHANGED <<tracks, sample, states, call, containedTracks, gesture>>

\* clearEnergyData that empties the samples and lets the running time go on
clearEnergyDataKeepingTime(gm) == [gm EXCEPT !.skaterSamples = << >>]

\* GraphsModel.clearEnergyData
clearEnergyData(gm) ==
  [gm EXCEPT !.runningTime = NewGraphsModel.runningTime,
             !.skaterSamples = << >>]

\* the eraser button of the energy graph
ClearEnergyData ==
  /\ graphs' = [clearEnergyData(graphs) EXCEPT !.stepModelCalls = 0]
  /\ skater' = begin(skater)
  /\ Op("clearEnergyData", << >>)
  /\ UNCHANGED <<tracks, sample, states, call, containedTracks, gesture>>

\* the play/pause control sets pausedProperty; it is used while the cursor of
\* the plot is not held
SetPaused ==
  /\ ~graphs.cursorDragging
  /\ graphs' = [graphs EXCEPT !.paused = ~@, !.stepModelCalls = 0]
  /\ skater' = begin(skater)
  /\ Op("setPaused", <<~graphs.paused>>)
  /\ UNCHANGED <<tracks, sample, states, call, containedTracks, gesture>>

\* EnergyPlot cursorOptions.startDrag
CursorStartDrag ==
  /\ ~graphs.cursorDragging
  /\ graphs' = [graphs EXCEPT !.pausedOnDragStart = graphs.paused,
                              !.paused = TRUE,
                              !.cursorDragging = TRUE,
                              !.stepModelCalls = 0]
  /\ skater' = begin(skater)
  /\ Op("cursorStartDrag", << >>)
  /\ UNCHANGED <<tracks, sample, states, call, containedTracks, gesture>>

\* EnergyPlot cursorOptions.drag with the cursor at a time of the plot: the
\* sample there is committed to the skater
GraphsCursorDrag ==
  /\ graphs.cursorDragging
  /\ Len(graphs.skaterSamples) > 0
  /\ \E time \in 0 .. MaxTime :
       LET closestSample ==
             graphs.skaterSamples[getClosestSkaterState(graphs, time)]
       IN  /\ skater' = emitUpdated(setToSkater(closestSample.state,
                                                begin(skater)))
           /\ sample' = Some(closestSample.state)
           /\ Op("cursorDrag", <<time>>)
  /\ graphs' = [graphs EXCEPT !.stepModelCalls = 0]
  /\ UNCHANGED <<tracks, states, call, containedTracks, gesture>>

\* endDrag that resumes the model whether or not it was paused before
CursorEndDragResuming ==
  /\ graphs.cursorDragging
  /\ \E timeOnEnd \in 0 .. MaxTime :
       LET indexOfSample == getClosestSkaterState(graphs, timeOnEnd)
       IN  /\ graphs' =
                [graphs EXCEPT
                   !.paused = FALSE,
                   !.cursorDragging = FALSE,
                   !.sampleTime = timeOnEnd,
                   !.skaterSamples = SubSeq(@, 1, indexOfSample - 1),
                   !.stepModelCalls = 0]
           /\ Op("cursorEndDrag", <<timeOnEnd>>)
  /\ skater' = begin(skater)
  /\ UNCHANGED <<tracks, sample, states, call, containedTracks, gesture>>

\* EnergyPlot cursorOptions.endDrag and the dragEndedEmitter listener: the
\* samples from the cursor's sample on are dropped (without samples the
\* closest sample is undefined, its index -1, and the splice removes nothing)
CursorEndDrag ==
  /\ graphs.cursorDragging
  /\ \E timeOnEnd \in 0 .. MaxTime :
       LET indexOfSample == getClosestSkaterState(graphs, timeOnEnd)
       IN  /\ graphs' =
                [graphs EXCEPT
                   !.paused = IF graphs.pausedOnDragStart THEN @ ELSE FALSE,
                   !.cursorDragging = FALSE,
                   !.sampleTime = timeOnEnd,
                   !.skaterSamples = SubSeq(@, 1, indexOfSample - 1),
                   !.stepModelCalls = 0]
           /\ Op("cursorEndDrag", <<timeOnEnd>>)
  /\ skater' = begin(skater)
  /\ UNCHANGED <<tracks, sample, states, call, containedTracks, gesture>>

NextGraphs ==
  \/ GraphsStep
  \/ SkaterDragStart
  \/ SkaterDrag
  \/ SkaterDragEnd
  \/ ClearEnergyData
  \/ SetPaused
  \/ CursorStartDrag
  \/ GraphsCursorDrag
  \/ CursorEndDrag

SpecGraphs == Init /\ [][NextGraphs]_vars

----------------------------------------------------------------------------
(* Track dragging and the control points' drag listener (ControlPointNode) *)

\* where the pointer can be after a press: among the tracks of the play
\* area, below the ground, and over the toolbox beyond the right edge of the
\* available bounds
PointerPoints == {<<1300, 600>>, <<1300, -100>>, <<2200, 1300>>}

\* drag events up to which the end of a gesture counts as a click
ClickDragEvents == 3

\* distance < 1 (metre): an end point this near another track's end snaps
SnapRange == 200

\* availableBoundsProperty.value, which the layout of the view has set
\* before any gesture
AvailableModelBounds ==
  [minX |-> 0, minY |-> -400, maxX |-> 2000, maxY |-> 1600]

\* createRelativeSpaceBounds( point, leftSpace, rightSpace, upSpace, downSpace )
createRelativeSpaceBounds(point, leftSpace, rightSpace, upSpace, downSpace) ==
  [minX |-> point[1] - leftSpace, minY |-> point[2] - downSpace,
   maxX |-> point[1] + rightSpace, maxY |-> point[2] + upSpace]

\* controlPoint.limitBounds: the control points of a premade track have
\* them, those of a track from the toolbox do not
limitBounds(t, i) ==
  IF t \in Tracks
    THEN Some(createRelativeSpaceBounds(InitialControlPoints[i],
                                        100, 100, 200, 100))
    ELSE Undefined

\* the control points whose nodes take input: premade tracks keep their end
\* points fixed
draggablePoints(t) ==
  IF t \in Tracks THEN DraggableControlPoints ELSE ControlPoints

\* Util.clamp
clamp(value, min, max) ==
  IF value < min THEN min ELSE IF value > max THEN max ELSE value

\* Bounds2.closestPointTo
closestPointTo(bounds, pt) ==
  <<clamp(pt[1], bounds.minX, bounds.maxX),
    clamp(pt[2], bounds.minY, bounds.maxY)>>

\* ControlPoint.position: the position of the snap target while there is
\* one, the source position otherwise
position(g, tr, t, i) ==
  IF g.track[t].snapTarget[i] # NoPoint
    THEN tr[g.track[t].snapTarget[i][1]][g.track[t].snapTarget[i][2]]
    ELSE tr[t][i]

\* model.tracks in the order of the array
RECURSIVE tracksInOrder(_)
tracksInOrder(set) ==
  IF set = {} THEN << >>
  ELSE LET first == CHOOSE t \in set : \A o \in set : t <= o
       IN  <<first>> \o tracksInOrder(set \ {first})

\* Track.getBottomControlPointY
getBottomControlPointY(tr, t) ==
  CHOOSE y \in {tr[t][i][2] : i \in ControlPoints} :
    \A i \in ControlPoints : y <= tr[t][i][2]

\* Track.translate( dx, dy )
translate(tr, t, dx, dy) ==
  [tr EXCEPT ![t] = [i \in ControlPoints |->
                       <<tr[t][i][1] + dx, tr[t][i][2] + dy>>]]

\* Track.bumpAboveGround: a track with a control point below the ground is
\* lifted until its lowest control point is on the ground
bumpAboveGround(g, tr, t) ==
  IF getBottomControlPointY(tr, t) < 0
    THEN translate(tr, t, 0, -getBottomControlPointY(tr, t))
    ELSE tr

\* model.joinTracks( track ): the track and the track of its snap target are
\* removed from the model and disposed of; the track made of the two is a new
\* object, which this model does not follow
joinTracks(g, contained, t) ==
  contained \ ({t} \cup {g.track[t].snapTarget[i][1] :
                           i \in {e \in EndPoints :
                                    g.track[t].snapTarget[e] # NoPoint}})

\* panelContainsPoint( dragPoint ): the toolbox is in the upper right corner
\* of the play area
panelContainsPoint(point) == point[1] >= 1200 /\ point[2] >= 1200

\* the track drag handler, start
trackDragStarted(g, t, point) ==
  [g EXCEPT !.track[t].lastDragPoint = Some(point),
            !.track[t].dragging = TRUE]

\* the end points the track drag handler compares, in the order of its
\* loops: <<own end point, other track, its end point>>
RECURSIVE endPointPairs(_)
endPointPairs(others) ==
  IF others = << >> THEN << >>
  ELSE << <<1, Head(others), 1>>, <<1, Head(others), 3>>,
          <<3, Head(others), 1>>, <<3, Head(others), 3>> >>
         \o endPointPairs(Tail(others))

\* the loop of the track drag handler over the end point pairs: a pair
\* replaces the best one so far if ( bestDistance === null && distance > 1E-6 )
\* || ( distance < bestDistance )
RECURSIVE closestEndPoints(_, _, _, _, _)
closestEndPoints(g, tr, t, pairs, best) ==
  IF pairs = << >> THEN best
  ELSE LET pair == Head(pairs)
           distance2 ==
             distanceSquared(tr[t][pair[1]],
                             position(g, tr, pair[2], pair[3]))
           better ==
             \/ best = Undefined /\ distance2 > 0
             \/ best # Undefined /\ distance2 < best[1].distance2
       IN  closestEndPoints(g, tr, t, Tail(pairs),
             IF better
               THEN Some([distance2 |-> distance2, mine |-> pair[1],
                          other |-> <<pair[2], pair[3]>>])
               ELSE best)

\* the track drag handler's drag that snaps to the best end point at whatever
\* distance it is
trackDraggedSnappingAtAnyDistance(g, tr, contained, t, point) ==
  LET last == g.track[t].lastDragPoint[1]
      delta == <<point[1] - last[1], point[2] - last[2]>>
      bottomControlPointY == getBottomControlPointY(tr, t)
      translatedBottomControlPointY == bottomControlPointY + delta[2]
      physical == g.track[t].physical \/ bottomControlPointY > 0
      dy == IF physical /\ translatedBottomControlPointY < 0
              THEN delta[2] - translatedBottomControlPointY
              ELSE delta[2]
      tr1 == translate(tr, t, delta[1], dy)
      g1 == [g EXCEPT !.track[t].dragging = TRUE,
                      !.track[t].lastDragPoint = Some(point),
                      !.track[t].overTrackPanel = panelContainsPoint(point),
                      !.track[t].physical = physical]
      others == tracksInOrder(getPhysicalTracks(contained, g1) \ {t})
      best == closestEndPoints(g1, tr1, t, endPointPairs(others), Undefined)
      snaps == best # Undefined
  IN  [gesture |->
         [g1 EXCEPT !.track[t].snapTarget =
            [i \in ControlPoints |->
               IF i \notin EndPoints THEN @[i]
               ELSE IF snaps /\ i = best[1].mine THEN best[1].other
               ELSE NoPoint]],
       tracks |-> tr1]

\* the track drag handler, drag, the pointer at point
trackDragged(g, tr, contained, t, point) ==
  LET last == g.track[t].lastDragPoint[1]
      delta == <<point[1] - last[1], point[2] - last[2]>>
      bottomControlPointY == getBottomControlPointY(tr, t)
      translatedBottomControlPointY == bottomControlPointY + delta[2]
      physical == g.track[t].physical \/ bottomControlPointY > 0
      dy == IF physical /\ translatedBottomControlPointY < 0
              THEN delta[2] - translatedBottomControlPointY
              ELSE delta[2]
      tr1 == translate(tr, t, delta[1], dy)
      g1 == [g EXCEPT !.track[t].dragging = TRUE,
                      !.track[t].lastDragPoint = Some(point),
                      !.track[t].overTrackPanel = panelContainsPoint(point),
                      !.track[t].physical = physical]
      others == tracksInOrder(getPhysicalTracks(contained, g1) \ {t})
      best == closestEndPoints(g1, tr1, t, endPointPairs(others), Undefined)
      snaps == best # Undefined /\ best[1].distance2 < SnapRange * SnapRange
  IN  [gesture |->
         [g1 EXCEPT !.track[t].snapTarget =
            [i \in ControlPoints |->
               IF i \notin EndPoints THEN @[i]
               ELSE IF snaps /\ i = best[1].mine THEN best[1].other
               ELSE NoPoint]],
       tracks |-> tr1]

\* the track drag handler, end: a track with a snap target is joined, a
\* track over the toolbox goes back into it
trackDragEnded(g, tr, contained, t) ==
  LET joins == \E e \in EndPoints : g.track[t].snapTarget[e] # NoPoint
      returns == ~joins /\ g.track[t].overTrackPanel
      g1 == IF returns THEN [g EXCEPT !.track[t].physical = FALSE] ELSE g
      tr1 == IF returns THEN [tr EXCEPT ![t] = ToolboxControlPoints] ELSE tr
  IN  [gesture |-> [g1 EXCEPT !.track[t].dragging = FALSE],
       tracks |-> bumpAboveGround(g1, tr1, t),
       contained |-> IF joins THEN joinTracks(g, contained, t) ELSE contained]

\* the listener's test for a track that is dragged as a whole: it is still in
\* the control panel, or has not been dropped yet
dragsWholeTrack(g, t) ==
  ~g.track[t].physical \/ (~g.track[t].dropped /\ g.track[t].draggable)

\* the start callback that takes over a track someone else is dragging
controlPointStartTakingOver(g, tr, t, i) ==
  IF dragsWholeTrack(g, t)
    THEN trackDragStarted(
           [g EXCEPT !.track[t].dragSource = i,
                     !.track[t].forwarded = Append(@, <<"trackDragStarted", i>>)],
           t, position(g, tr, t, i))
    ELSE [g EXCEPT !.track[t].controlPointDragging[i] = TRUE,
                   !.track[t].dragging = TRUE,
                   !.track[t].dragEvents[i] = 0,
                   !.track[t].slopeToGround = FALSE]

\* ControlPointNode inputListener.start, of control point i of track t; the
\* pointer is where the control point is
controlPointStart(g, tr, t, i) ==
  IF dragsWholeTrack(g, t)
    THEN IF g.track[t].dragSource = NoSource
           THEN trackDragStarted(
                  [g EXCEPT !.track[t].dragSource = i,
                            !.track[t].forwarded =
                               Append(@, <<"trackDragStarted", i>>)],
                  t, position(g, tr, t, i))
           ELSE g
    ELSE [g EXCEPT !.track[t].controlPointDragging[i] = TRUE,
                   !.track[t].dragging = TRUE,
                   !.track[t].dragEvents[i] = 0,
                   !.track[t].slopeToGround = FALSE]

\* the loop of the control point's drag over the end points of the other
\* physical tracks: bestDistance starts at infinity and a nearer end point
\* replaces the best match
RECURSIVE closestEndPoint(_, _, _, _, _)
closestEndPoint(g, tr, pt, points, best) ==
  IF points = << >> THEN best
  ELSE LET otherPoint == Head(points)
           distance2 ==
             distanceSquared(pt, position(g, tr, otherPoint[1], otherPoint[2]))
       IN  closestEndPoint(g, tr, pt, Tail(points),
             IF best = Undefined \/ distance2 < best[1].distance2
               THEN Some([distance2 |-> distance2, other |-> otherPoint])
               ELSE best)

\* the end points of the tracks others, in the order of the loops
RECURSIVE otherEndPoints(_)
otherEndPoints(others) ==
  IF others = << >> THEN << >>
  ELSE << <<Head(others), 1>>, <<Head(others), 3>> >>
         \o otherEndPoints(Tail(others))

\* the control point's part of the drag callback, the pointer at pt, with
\* the constraint to y >= 0 or without it
moveControlPoint(g, tr, contained, t, i, pt, aboveGround) ==
  LET raised == IF aboveGround /\ pt[2] < 0 THEN <<pt[1], 0>> ELSE pt
      dragBounds == IF limitBounds(t, i) # Undefined
                      THEN limitBounds(t, i)[1]
                      ELSE AvailableModelBounds
      p == closestPointTo(dragBounds, raised)
      tr1 == [tr EXCEPT ![t][i] = p]
      g1 == [g EXCEPT !.track[t].dragEvents[i] = @ + 1,
                      !.track[t].controlPointDragging[i] = TRUE,
                      !.track[t].dragging = TRUE,
                      !.track[t].trackModified = @ + 1]
      others == tracksInOrder(getPhysicalTracks(contained, g1) \ {t})
      best == closestEndPoint(g1, tr1, p, otherEndPoints(others), Undefined)
      bestMatch == IF best # Undefined /\ best[1].distance2 < SnapRange * SnapRange
                     THEN best[1].other
                     ELSE NoPoint
  IN  [gesture |-> IF i \in EndPoints
                     THEN [g1 EXCEPT !.track[t].snapTarget[i] = bestMatch]
                     ELSE g1,
       tracks |-> tr1]

\* the drag callback without the test that the model contains the track
controlPointDragUnchecked(g, tr, contained, t, i, pt) ==
  IF dragsWholeTrack(g, t)
    THEN IF g.track[t].dragSource = i
           THEN trackDragged(
                  [g EXCEPT !.track[t].forwarded =
                              Append(@, <<"trackDragged", i>>)],
                  tr, contained, t, pt)
           ELSE [gesture |-> g, tracks |-> tr]
    ELSE moveControlPoint(g, tr, contained, t, i, pt, TRUE)

\* the drag callback without the constraint to y >= 0
controlPointDragBelowGround(g, tr, contained, t, i, pt) ==
  IF t \notin contained THEN [gesture |-> g, tracks |-> tr]
  ELSE IF dragsWholeTrack(g, t)
    THEN IF g.track[t].dragSource = i
           THEN trackDragged(
                  [g EXCEPT !.track[t].forwarded =
                              Append(@, <<"trackDragged", i>>)],
                  tr, contained, t, pt)
           ELSE [gesture |-> g, tracks |-> tr]
  ELSE moveControlPoint(g, tr, contained, t, i, pt, FALSE)

\* ControlPointNode inputListener.drag, the pointer at pt: yields the
\* tracks' flags and control points
controlPointDrag(g, tr, contained, t, i, pt) ==
  IF t \notin contained THEN [gesture |-> g, tracks |-> tr]
  ELSE IF dragsWholeTrack(g, t)
    THEN IF g.track[t].dragSource = i
           THEN trackDragged(
                  [g EXCEPT !.track[t].forwarded =
                              Append(@, <<"trackDragged", i>>)],
                  tr, contained, t, pt)
           ELSE [gesture |-> g, tracks |-> tr]
  ELSE moveControlPoint(g, tr, contained, t, i, pt, TRUE)

\* ControlPointNode inputListener.end
controlPointEnd(g, tr, contained, t, i) ==
  IF t \notin contained
    THEN [gesture |-> g, tracks |-> tr, contained |-> contained]
  ELSE IF dragsWholeTrack(g, t)
    THEN IF g.track[t].dragSource = i
           THEN trackDragEnded(
                  [g EXCEPT !.track[t].forwarded =
                              Append(@, <<"trackDragEnded", i>>)],
                  tr, contained, t)
           ELSE [gesture |-> g, tracks |-> tr, contained |-> contained]
  ELSE IF i \in EndPoints /\ g.track[t].snapTarget[i] # NoPoint
    THEN [gesture |-> g, tracks |-> tr,
          contained |-> joinTracks(g, contained, t)]
  ELSE [gesture |->
          [g EXCEPT !.track[t].trackModified = @ + 1,
                    !.track[t].controlPointDragging[i] = FALSE,
                    !.track[t].dragging = FALSE,
                    !.track[t].controlPointUIShown =
                       g.track[t].splittable
                         /\ g.track[t].dragEvents[i] <= ClickDragEvents],
        tracks |-> bumpAboveGround(g, tr, t),
        contained |-> contained]

\* the pointer goes down on a control point of a track that is on screen
ControlPointStart ==
  /\ \E t \in containedTracks :
       \E i \in draggablePoints(t) :
         /\ ~gesture.track[t].controlPointPressed[i]
         /\ gesture' = [controlPointStart(gesture, tracks, t, i) EXCEPT
                          !.track[t].controlPointPressed[i] = TRUE]
         /\ Op("controlPointStart", <<t, i>>)
  /\ UNCHANGED <<skater, tracks, sample, states, call, graphs,
                 containedTracks>>

\* the pointer moves while it holds a control point
ControlPointDrag ==
  /\ \E t \in AllTracks, i \in ControlPoints, pt \in PointerPoints :
       /\ gesture.track[t].controlPointPressed[i]
       /\ LET r == controlPointDrag(gesture, tracks, containedTracks, t, i, pt)
          IN  /\ gesture' = r.gesture
              /\ tracks' = r.tracks
       /\ Op("controlPointDrag", <<t, i, pt>>)
  /\ UNCHANGED <<skater, sample, states, call, graphs, containedTracks>>

\* the pointer lets go of a control point
ControlPointEnd ==
  /\ \E t \in AllTracks, i \in ControlPoints :
       /\ gesture.track[t].controlPointPressed[i]
       /\ LET r == controlPointEnd(gesture, tracks, containedTracks, t, i)
          IN  /\ gesture' = [r.gesture EXCEPT
                               !.track[t].controlPointPressed[i] = FALSE]
              /\ tracks' = r.tracks
              /\ containedTracks' = r.contained
       /\ Op("controlPointEnd", <<t, i>>)
  /\ UNCHANGED <<skater, sample, states, call, graphs>>

\* a track is deleted: the model no longer holds it
RemoveTrack ==
  /\ \E t \in containedTracks :
       /\ containedTracks' = containedTracks \ {t}
       /\ Op("removeTrack", <<t>>)
  /\ UNCHANGED <<skater, tracks, sample, states, call, graphs, gesture>>

NextGestures ==
  \/ ControlPointStart
  \/ ControlPointDrag
  \/ ControlPointEnd
  \/ RemoveTrack
  \/ SkaterDragStart
  \/ SkaterDrag
  \/ SkaterDragEnd

SpecGestures == Init /\ [][NextGestures]_vars

----------------------------------------------------------------------------
(* Properties of the Skater commands *)

\* the fields of the Skater that its users read
SkaterFields ==
  {"track", "parametricPosition", "parametricSpeed", "onTopSideOfTrack",
   "gravityMagnitude", "referenceHeight", "position", "mass", "direction",
   "velocity", "dragging", "kineticEnergy", "potentialEnergy",
   "thermalEnergy", "totalEnergy", "angle", "headPosition",
   "startingPosition", "startingU", "startingUp", "startingTrack",
   "startingTrackControlPointSources", "startingAngle"}

EnergyFields == {"kineticEnergy", "potentialEnergy", "totalEnergy"}

\* the stored energies are the ones the formulas give for the stored fields
EnergiesConsistent(s) ==
  /\ 2 * s.kineticEnergy = s.mass * magnitudeSquared(s.velocity)
  /\ s.potentialEnergy =
       -(s.mass * gravityProperty(s) * (s.position[2] - s.referenceHeight))
  /\ s.totalEnergy = s.kineticEnergy + s.potentialEnergy + s.thermalEnergy

\* C1: after reset() every Skater field, the release snapshot included,
\* has the value it had after construction.
C1_ResetRestoresDefaults ==
  lastOp = "reset" => \A f \in SkaterFields : skater[f] = NewSkater[f]

\* C2 as claimed: after returnSkater() the skater is at the snapshot
\* position, at rest, and attached to the starting track at the starting
\* parametric position and side whenever that track's control points are
\* the ones recorded at release; otherwise it is detached.
C2_ReturnSkaterReattachesWheneverTrackUnchanged ==
  lastOp = "returnSkater" =>
    /\ skater.position = skater.startingPosition
    /\ skater.velocity = ZeroVector
    /\ IF /\ skater.startingTrack # NoTrack
          /\ arrayEquals(tracks[skater.startingTrack],
                         skater.startingTrackControlPointSources[1])
         THEN /\ skater.track = skater.startingTrack
              /\ skater.parametricPosition = skater.startingU
              /\ skater.onTopSideOfTrack = skater.startingUp
         ELSE skater.track = NoTrack

\* C2 amended: returnSkater() puts the skater at the snapshot position, at
\* rest, with no thermal energy and at the snapshot angle; it stays attached
\* (at the starting parametric position and side, parametric speed 0)
\* exactly when it was still on the starting track and that track's control
\* points are the ones recorded at release, and is detached otherwise.
C2_ReturnSkaterStaysOnlyIfStillOnUnchangedTrack ==
  [][lastOp' = "returnSkater" =>
       /\ skater'.position = skater.startingPosition
       /\ skater'.velocity = ZeroVector
       /\ skater'.thermalEnergy = 0
       /\ skater'.angle = skater.startingAngle
       /\ \A f \in {"startingPosition", "startingU", "startingUp",
                     "startingTrack", "startingTrackControlPointSources",
                     "startingAngle"} : skater'[f] = skater[f]
       /\ IF /\ skater.startingTrack # NoTrack
             /\ skater.track = skater.startingTrack
             /\ tracks[skater.startingTrack] =
                  skater.startingTrackControlPointSources[1]
            THEN /\ skater'.track = skater.startingTrack
                 /\ skater'.parametricPosition = skater.startingU
                 /\ skater'.onTopSideOfTrack = skater.startingUp
                 /\ skater'.parametricSpeed = 0
            ELSE skater'.track = NoTrack]_vars

\* returnSkater() has kept the skater on the track it was released on,
\* after it had moved away from the release point
C2_Witness ==
  /\ lastOp = "returnSkater"
  /\ skater.track # NoTrack
  /\ skater.track = skater.startingTrack
  /\ skater.position = skater.startingPosition
  /\ sample # Undefined

\* C3 as claimed: resetPosition() keeps the mass and gives every other field
\* the value reset() would give it (the energies and the head position, which
\* depend on the mass, being the ones computed from the resulting fields).
C3_ResetPositionIsResetButMass ==
  [][lastOp' = "resetPosition" =>
       /\ skater'.mass = skater.mass
       /\ EnergiesConsistent(skater')
       /\ skater'.headPosition = getHeadPosition(skater')
       /\ \A f \in SkaterFields \ ({"mass", "headPosition"} \cup EnergyFields) :
            skater'[f] = reset(begin(skater))[f]]_vars

\* C3 amended: resetPosition() keeps the mass and the reference height;
\* the energies and the head position are the ones computed from the
\* resulting fields; every other field has the value reset() would give it.
C3_ResetPositionKeepsMassAndReferenceHeight ==
  [][lastOp' = "resetPosition" =>
       /\ skater'.mass = skater.mass
       /\ skater'.referenceHeight = skater.referenceHeight
       /\ EnergiesConsistent(skater')
       /\ skater'.headPosition = getHeadPosition(skater')
       /\ \A f \in SkaterFields \ ({"mass", "referenceHeight", "headPosition"}
                                     \cup EnergyFields) :
            skater'[f] = reset(begin(skater))[f]]_vars

\* resetPosition() has run with a mass and a reference height that are not
\* the defaults
C3_Witness ==
  /\ lastOp = "resetPosition"
  /\ skater.mass # DefaultMass
  /\ skater.referenceHeight # 0
  /\ skater.potentialEnergy # 0

\* C4: returnToInitialPosition() keeps the mass, gives every other field
\* its default, and leaves the energies computed with the kept mass.
C4_ReturnToInitialPositionIsResetButMass ==
  [][lastOp' = "returnToInitialPosition" =>
       /\ skater'.mass = skater.mass
       /\ \A f \in SkaterFields \ {"mass"} : skater'[f] = NewSkater[f]
       /\ EnergiesConsistent(skater')]_vars

\* C5: after released(track, u) the skater is not dragging, at rest, on the
\* given track at the given parametric position, at the track's point there
\* (where it was, without a track); the release snapshot holds the current
\* position, parametric position, side, track, control points and angle, and
\* movedProperty is false.
C5_ReleasedTakesSnapshot ==
  [][lastOp' = "released" =>
       /\ ~skater'.dragging
       /\ skater'.velocity = ZeroVector
       /\ skater'.parametricSpeed = 0
       /\ skater'.track = lastArgs'[1]
       /\ skater'.parametricPosition = lastArgs'[2]
       /\ skater'.position =
            IF lastArgs'[1] # NoTrack
              THEN tracks[lastArgs'[1]][lastArgs'[2] + 1]
              ELSE skater.position
       /\ skater'.startingPosition = skater'.position
       /\ skater'.startingU = skater'.parametricPosition
       /\ skater'.startingUp = skater'.onTopSideOfTrack
       /\ skater'.startingTrack = skater'.track
       /\ skater'.startingTrackControlPointSources =
            Some(IF skater'.track # NoTrack THEN tracks[skater'.track]
                                            ELSE << >>)
       /\ skater'.startingAngle = skater'.angle
       /\ ~movedProperty(skater')]_vars

\* released(track, u) has put a moving skater on a track, at a point that is
\* not where the previous snapshot was taken
C5_Witness ==
  /\ lastOp = "released"
  /\ lastArgs[1] # NoTrack
  /\ skater.startingPosition # DefaultPosition
  /\ skater.direction = "right"
  /\ skater.startingTrackControlPointSources = Some(tracks[skater.track])

\* C6: whenever the skater is not being dragged, the stored kinetic,
\* potential and total energy are the ones the formulas give for the stored
\* mass, velocity, position, gravity, reference height and thermal energy.
C6_EnergiesConsistentWhenNotDragging ==
  ~skater.dragging => EnergiesConsistent(skater)

\* the seven operations C7 is about, and those of them that emit 'updated'
EnergyOps ==
  {"reset", "resetPosition", "returnToInitialPosition", "returnSkater",
   "released", "updateEnergy", "clearThermal"}

UpdatingOps == EnergyOps \ {"updateEnergy", "clearThermal"}

\* C7 as claimed: each of the seven operations emits 'updated' and
\* 'energy changed'.
C7_EveryOperationEmitsUpdated ==
  lastOp \in EnergyOps => skater.updated >= 1 /\ skater.energyChanged >= 1

\* C7 amended: reset, resetPosition, returnToInitialPosition, returnSkater
\* and released emit 'updated' and 'energy changed'; updateEnergy and
\* clearThermal emit 'energy changed' and do not emit 'updated'.
C7_CommandsEmitUpdatedEnergyOpsDoNot ==
  /\ lastOp \in UpdatingOps => skater.updated >= 1 /\ skater.energyChanged >= 1
  /\ lastOp \in EnergyOps \ UpdatingOps =>
       skater.updated = 0 /\ skater.energyChanged >= 1

\* clearThermal() has cleared thermal energy that a commit had stored
C7_Witness ==
  /\ lastOp = "clearThermal"
  /\ sample # Undefined
  /\ sample[1].thermalEnergy > 0
  /\ skater.thermalEnergy = 0
  /\ skater.energyChanged = 1

\* the Skater holds what state st commits
Committed(st) ==
  /\ skater.track = st.track
  /\ skater.position = <<st.positionX, st.positionY>>
  /\ skater.velocity = <<st.velocityX, st.velocityY>>
  /\ skater.parametricPosition = st.parametricPosition
  /\ skater.parametricSpeed = st.parametricSpeed
  /\ skater.thermalEnergy = st.thermalEnergy
  /\ skater.onTopSideOfTrack = st.onTopSideOfTrack
  /\ skater.angle =
       IF st.track # NoTrack
         THEN getViewAngleAt(st.track, st.parametricPosition)
                + (IF st.onTopSideOfTrack THEN 0 ELSE PI)
         ELSE st.angle

\* C8 as claimed: after setToSkater the Skater holds the state's track,
\* position, velocity, parametric position and speed, thermal energy and
\* side, its angle is the track's view angle (plus pi on the underside) or
\* the state's angle, and 'updated' has been emitted.
C8_SetToSkaterCommitsAndEmitsUpdated ==
  lastOp = "setToSkater" => Committed(sample[1]) /\ skater.updated >= 1

\* C8 amended: after setToSkater the Skater holds the state's fields and the
\* angle as claimed, and 'energy changed' has been emitted; 'updated' is not
\* emitted by setToSkater but by its caller, once, after the commit.
C8_SetToSkaterCommitsCallerEmitsUpdated ==
  /\ lastOp = "setToSkater" =>
       /\ Committed(sample[1])
       /\ skater.energyChanged = 1
       /\ skater.updated = 0
  /\ lastOp = "cursorDrag" =>
       /\ Committed(sample[1])
       /\ skater.energyChanged = 1
       /\ skater.updated = 1

\* a state on the underside of a track has been committed
C8_Witness ==
  /\ lastOp = "setToSkater"
  /\ skater.track # NoTrack
  /\ ~skater.onTopSideOfTrack
  /\ skater.angle = getViewAngleAt(skater.track, skater.parametricPosition) + PI

----------------------------------------------------------------------------
(* Properties of SkaterState *)

\* the methods that C9 says return a new state
TransformOps ==
  {"update", "updateTrackUD", "updateUUDVelocityPosition",
   "updatePositionAngleUpVelocity", "updateThermalEnergy", "updateUPosition",
   "switchToGround", "strikeGround", "copy", "leaveTrack", "updatePosition",
   "updateUDVelocity", "continueFreeFall", "attachToTrack", "setState"}

\* C9: every SkaterState transform, setState included, returns an object
\* other than its receiver and leaves every field of the receiver as it was.
C9_TransformsReturnNewState ==
  call.op \in TransformOps =>
    /\ call.result # call.this
    /\ states[call.this] = call.before[1]

\* C10: for a SkaterState, total energy = kinetic + potential + thermal,
\* kinetic = 1/2 m (vx^2 + vy^2), potential = -m g (y - reference height);
\* and once the state is committed to a Skater of the same mass, gravity and
\* reference height, the Skater's stored kinetic, potential and total energy
\* are those values.
C10_StateEnergiesAgreeWithSkater ==
  sample # Undefined =>
    LET st == sample[1]
    IN  /\ 2 * getKineticEnergy(st) =
             st.mass * (st.velocityX * st.velocityX + st.velocityY * st.velocityY)
        /\ getPotentialEnergy(st) =
             -(st.mass * st.gravity * (st.positionY - st.referenceHeight))
        /\ getTotalEnergy(st) =
             getKineticEnergy(st) + getPotentialEnergy(st) + st.thermalEnergy
        /\ ( /\ lastOp \in {"setToSkater", "cursorDrag"}
             /\ st.mass = skater.mass
             /\ st.gravity = gravityProperty(skater)
             /\ st.referenceHeight = skater.referenceHeight )
           => /\ skater.kineticEnergy = getKineticEnergy(st)
              /\ skater.potentialEnergy = getPotentialEnergy(st)
              /\ skater.totalEnergy = getTotalEnergy(st)

\* a recorded state with kinetic, potential and thermal energy, taken above a
\* raised reference height, has been committed again
C10_Witness ==
  /\ lastOp = "cursorDrag"
  /\ sample[1].referenceHeight # 0
  /\ sample[1].referenceHeight = skater.referenceHeight
  /\ sample[1].mass = skater.mass
  /\ sample[1].gravity = gravityProperty(skater)
  /\ sample[1].thermalEnergy > 0
  /\ getKineticEnergy(sample[1]) > 0
  /\ getPotentialEnergy(sample[1]) # 0
  /\ skater.totalEnergy = getTotalEnergy(sample[1])

\* C11: the state copy() returns has every field equal to the field of the
\* state it was called on, and the same total energy.
C11_CopyHasEqualFields ==
  call.op = "copy" =>
    /\ \A key \in SkaterStateKeys :
         states[call.result][key] = call.before[1][key]
    /\ getTotalEnergy(states[call.result]) = getTotalEnergy(call.before[1])

\* a state on the underside of a track, with thermal energy, has been copied
C11_Witness ==
  /\ call.op = "copy"
  /\ call.result # call.this
  /\ call.before[1].thermalEnergy > 0
  /\ call.before[1].track # NoTrack
  /\ ~call.before[1].onTopSideOfTrack
  /\ states[call.result] = call.before[1]

C13_GroundStrikeClampsAndHeats ==
  call.op = "groundStrike" =>
    LET input == call.before[1]
        out == states[call.result]
    IN  /\ out.positionY = 0
        /\ out.velocityX = 0
        /\ out.velocityY = 0
        /\ out.angle = 0
        /\ out.onTopSideOfTrack
        /\ out.thermalEnergy = input.thermalEnergy + getKineticEnergy(input)

\* a moving, tilted free-fall state below the ground has struck the ground
C13_Witness ==
  /\ call.op = "groundStrike"
  /\ call.before[1].track = NoTrack
  /\ call.before[1].positionY < 0
  /\ call.before[1].velocityX # 0
  /\ call.before[1].angle # 0
  /\ call.before[1].thermalEnergy > 0
  /\ states[call.result].thermalEnergy > call.before[1].thermalEnergy
  /\ states[call.result].positionY = 0

\* C14: leaveTrack returns a state with no track and parametric speed 0 whose
\* other fields (position, velocity, thermal energy, mass, gravity, reference
\* height, angle, side, parametric position) are those of its receiver.
C14_LeaveTrackKeepsMotion ==
  call.op = "leaveTrack" =>
    /\ states[call.result].track = NoTrack
    /\ states[call.result].parametricSpeed = 0
    /\ \A key \in SkaterStateKeys \ {"track", "parametricSpeed"} :
         states[call.result][key] = call.before[1][key]

\* a state moving along the underside of a track has left it
C14_Witness ==
  /\ call.op = "leaveTrack"
  /\ call.before[1].track # NoTrack
  /\ call.before[1].parametricSpeed # 0
  /\ call.before[1].velocityX # 0
  /\ ~call.before[1].onTopSideOfTrack
  /\ states[call.result].track = NoTrack
  /\ states[call.result].velocityX = call.before[1].velocityX

\* C15 as claimed: a free-fall state attached to a track at u and at once
\* taken off it by leaveTrack has the position and the velocity of the
\* free-fall state, and no more total energy.
C15_AttachThenLeaveRestoresMotion ==
  call.op = "attachThenLeave" =>
    LET before == call.before[1]
        after == states[call.result]
    IN  /\ after.positionX = before.positionX
        /\ after.positionY = before.positionY
        /\ after.velocityX = before.velocityX
        /\ after.velocityY = before.velocityY
        /\ getTotalEnergy(after) <= getTotalEnergy(before)

\* C15 amended: the state has the position and the velocity that were given
\* to attachToTrack, the point of the track at u and the component of the
\* free-fall velocity along the track, it has no track and parametric speed
\* 0, and no more total energy than the free-fall state.
C15_AttachThenLeaveKeepsAttachedMotion ==
  call.op = "attachThenLeave" =>
    LET before == call.before[1]
        after == states[call.result]
        u == after.parametricPosition
        tangent == getUnitParallelVector(states[call.result - 1].track, u)
        speed == before.velocityX * tangent[1] + before.velocityY * tangent[2]
    IN  /\ states[call.result - 1].track # NoTrack
        /\ <<after.positionX, after.positionY>> =
             getPoint(states[call.result - 1].track, u)
        /\ after.velocityX = speed * tangent[1]
        /\ after.velocityY = speed * tangent[2]
        /\ after.track = NoTrack
        /\ after.parametricSpeed = 0
        /\ getTotalEnergy(after) <= getTotalEnergy(before)

\* a free fall with a velocity component across the track has landed and
\* left: that component is gone and its energy is thermal energy
C15_Witness ==
  /\ call.op = "attachThenLeave"
  /\ call.before[1].track = NoTrack
  /\ call.before[1].velocityY # 0
  /\ states[call.result].velocityY = 0
  /\ states[call.result].velocityX = call.before[1].velocityX
  /\ states[call.result].thermalEnergy > call.before[1].thermalEnergy
  /\ getTotalEnergy(states[call.result]) = getTotalEnergy(call.before[1])

\* C20: updateEnergy() sets the kinetic, potential and total energy to the
\* values the current fields give, and leaves the thermal energy and every
\* other field (position, velocity, mass, gravity, reference height, track
\* among them) as it was.
C20_UpdateEnergyChangesOnlyEnergies ==
  [][lastOp' = "updateEnergy" =>
       /\ \A f \in SkaterFields \ EnergyFields : skater'[f] = skater[f]
       /\ 2 * skater'.kineticEnergy =
            skater.mass * magnitudeSquared(skater.velocity)
       /\ skater'.potentialEnergy =
            -(skater.mass * gravityProperty(skater)
                * (skater.position[2] - skater.referenceHeight))
       /\ skater'.totalEnergy =
            skater'.kineticEnergy + skater'.potentialEnergy
              + skater.thermalEnergy]_vars

\* updateEnergy() has run on a skater with thermal energy whose stored
\* potential energy was stale after the reference height moved
C20_Witness ==
  /\ lastOp = "updateEnergy"
  /\ skater.thermalEnergy > 0
  /\ skater.referenceHeight # 0
  /\ skater.kineticEnergy > 0
  /\ skater.potentialEnergy # 0
  /\ EnergiesConsistent(skater)

----------------------------------------------------------------------------
(* Properties of ticks and drags *)

\* C16 as claimed: a tick while the skater is dragged does not call
\* stepModel, so it produces and records no SkaterState and commits nothing.
C16_NoStepModelWhileDragging ==
  [][(lastOp' = "step" /\ skater.dragging) =>
       /\ graphs'.stepModelCalls = 0
       /\ graphs'.skaterSamples = graphs.skaterSamples
       /\ \A f \in SkaterFields : skater'[f] = skater[f]]_vars

\* C16 amended: a tick while the skater is dragged commits nothing to the
\* Skater, but the Graphs model calls stepModel once on a copy of the skater:
\* the running time advances by dt and, while it is below the maximum, the
\* state stepModel got back is recorded as a sample.
C16_GraphsStepRecordsWhileDragging ==
  [][(lastOp' = "step" /\ skater.dragging) =>
       /\ graphs'.stepModelCalls = 1
       /\ graphs'.runningTime = graphs.runningTime + Dt
       /\ IF graphs'.runningTime < MaxTime
            THEN /\ Len(graphs'.skaterSamples) = Len(graphs.skaterSamples) + 1
                 /\ SubSeq(graphs'.skaterSamples, 1, Len(graphs.skaterSamples))
                      = graphs.skaterSamples
                 /\ graphs'.skaterSamples[Len(graphs'.skaterSamples)].time
                      = graphs'.runningTime
                 /\ graphs'.skaterSamples[Len(graphs'.skaterSamples)]
                      .state.dragging
            ELSE graphs'.skaterSamples = graphs.skaterSamples
       /\ \A f \in SkaterFields : skater'[f] = skater[f]
       /\ skater'.updated = 0
       /\ skater'.energyChanged = 0]_vars

\* a tick has passed while the skater was held, and left a sample
C16_Witness ==
  /\ lastOp = "step"
  /\ lastArgs = <<TRUE>>
  /\ skater.dragging
  /\ graphs.stepModelCalls = 1
  /\ Len(graphs.skaterSamples) > 0
  /\ graphs.skaterSamples[Len(graphs.skaterSamples)].state.dragging
  /\ graphs.skaterSamples[Len(graphs.skaterSamples)].time = graphs.runningTime

\* C17: when a skater drag starts the velocity becomes (0, 0) and the thermal
\* energy 0, and in every state while dragging is true, after pointer drag
\* events and after commits by setToSkater, the velocity is (0, 0) and the
\* kinetic energy is 0.
C17_NoMotionWhileDragging ==
  /\ lastOp = "skaterDragStart" =>
       skater.velocity = ZeroVector /\ skater.thermalEnergy = 0
  /\ skater.dragging =>
       skater.velocity = ZeroVector /\ skater.kineticEnergy = 0

----------------------------------------------------------------------------
(* Properties of the gestures *)

\* the control points, the tracks' flags, the model's tracks and the skater
\* are after a callback what they were before it (whether the pointer holds
\* a control point is the listener's own bookkeeping)
NothingMutated(t) ==
  /\ tracks' = tracks
  /\ containedTracks' = containedTracks
  /\ \A f \in SkaterFields : skater'[f] = skater[f]
  /\ graphs' = graphs
  /\ [gesture' EXCEPT !.track[t].controlPointPressed =
                          [i \in ControlPoints |-> FALSE]]
       = [gesture EXCEPT !.track[t].controlPointPressed =
                           [i \in ControlPoints |-> FALSE]]

\* C18: a control point's drag or end callback that runs when the model no
\* longer contains its track changes no control point, track or model state.
C18_ControlPointCallbacksSkipRemovedTrack ==
  [][(/\ lastOp' \in {"controlPointDrag", "controlPointEnd"}
      /\ lastArgs'[1] \notin containedTracks)
       => NothingMutated(lastArgs'[1])]_vars

\* a control point of a deleted track has been dragged, once before and once
\* after the deletion, and only the first drag moved it
C18_Witness ==
  /\ lastOp = "controlPointDrag"
  /\ lastArgs[1] \notin containedTracks
  /\ lastArgs[3] # tracks[lastArgs[1]][lastArgs[2]]
  /\ gesture.track[lastArgs[1]].dragEvents[lastArgs[2]] = 1
  /\ gesture.track[lastArgs[1]].controlPointDragging[lastArgs[2]]

\* C19: a gesture callback (control point start, drag and end; skater drag
\* end, which attaches the skater to the track of the last drag event) that
\* runs when the model no longer contains its track mutates nothing.
C19_GestureCallbacksCheckTrackExists ==
  [][/\ (/\ lastOp' \in {"controlPointStart", "controlPointDrag",
                         "controlPointEnd"}
         /\ lastArgs'[1] \notin containedTracks)
          => NothingMutated(lastArgs'[1])
     /\ (/\ lastOp' = "skaterDragEnd"
         /\ gesture.targetTrack # NoTrack
         /\ gesture.targetTrack \notin containedTracks)
          => /\ \A f \in SkaterFields : skater'[f] = skater[f]
             /\ tracks' = tracks]_vars

----------------------------------------------------------------------------
(* Further properties of the Skater *)

\* C21: after clearThermal() the thermal energy is 0 and the total energy is
\* the kinetic plus the potential energy that the current position, velocity,
\* mass, gravity and reference height give; position, velocity and track are
\* unchanged.
C21_ClearThermalZeroesAndRecomputes ==
  [][lastOp' = "clearThermal" =>
       /\ skater'.thermalEnergy = 0
       /\ 2 * skater'.kineticEnergy =
            skater'.mass * magnitudeSquared(skater'.velocity)
       /\ skater'.potentialEnergy =
            -(skater'.mass * gravityProperty(skater')
                * (skater'.position[2] - skater'.referenceHeight))
       /\ skater'.totalEnergy = skater'.kineticEnergy + skater'.potentialEnergy
       /\ skater'.position = skater.position
       /\ skater'.velocity = skater.velocity
       /\ skater'.track = skater.track]_vars

\* clearThermal() has run on a skater moving on a track with friction heat,
\* after the reference height was raised
C21_Witness ==
  /\ lastOp = "clearThermal"
  /\ skater.track # NoTrack
  /\ skater.kineticEnergy > 0
  /\ skater.referenceHeight # 0
  /\ sample # Undefined
  /\ sample[1].thermalEnergy > 0
  /\ skater.thermalEnergy = 0
  /\ skater.totalEnergy = skater.kineticEnergy + skater.potentialEnergy

----------------------------------------------------------------------------
(* Properties of the recorded samples and the cursor of the energy plot *)

\* |a - b|
absDifference(a, b) == IF a >= b THEN a - b ELSE b - a

\* C22: getClosestSkaterState(time), called with at least one recorded
\* sample, returns the recorded sample whose time is closest to time: the
\* state the cursor commits is the state of a sample at minimal
\* |sample.time - time|.
C22_ClosestSampleIsNearestInTime ==
  (lastOp = "cursorDrag" /\ Len(graphs.skaterSamples) > 0) =>
    \E i \in DOMAIN graphs.skaterSamples :
      /\ graphs.skaterSamples[i].state = sample[1]
      /\ \A j \in DOMAIN graphs.skaterSamples :
           absDifference(graphs.skaterSamples[i].time, lastArgs[1])
             <= absDifference(graphs.skaterSamples[j].time, lastArgs[1])

----------------------------------------------------------------------------
(* Properties of the facing direction *)

\* the direction the listener of parametricSpeedProperty gives for a speed
\* beyond the threshold and a side of the track
facing(parametricSpeed, onTopSideOfTrack) ==
  IF (parametricSpeed > 0) = onTopSideOfTrack THEN "right" ELSE "left"

\* C23: after a setToSkater commit or a Skater command, whenever
\* |parametricSpeed| > 0.01 the direction is 'right' exactly when
\* (parametricSpeed > 0) equals onTopSideOfTrack and 'left' otherwise, also
\* when side and speed change in the same commit; and a commit that changes
\* the parametric speed to a value within [-0.01, 0.01] leaves the direction
\* as it was.
C23_DirectionFollowsSpeedAndSide ==
  [][/\ (/\ lastOp' \in {"setToSkater", "cursorDrag"} \cup EnergyOps
         /\ (skater'.parametricSpeed > speedThreshold
               \/ skater'.parametricSpeed < -speedThreshold))
          => skater'.direction =
               facing(skater'.parametricSpeed, skater'.onTopSideOfTrack)
     /\ (/\ lastOp' \in {"setToSkater", "cursorDrag"}
         /\ skater'.parametricSpeed # skater.parametricSpeed
         /\ skater'.parametricSpeed <= speedThreshold
         /\ skater'.parametricSpeed >= -speedThreshold)
          => skater'.direction = skater.direction]_vars

\* C24: when a drag of the cursor ends, exactly the samples with a time
\* greater than the cursor time are removed, those at or before the cursor
\* time are kept, and the model's sample time is the cursor time.
C24_CursorEndRemovesLaterSamples ==
  [][lastOp' = "cursorEndDrag" =>
       /\ graphs'.skaterSamples =
            SubSeq(graphs.skaterSamples, 1,
                   Cardinality({i \in DOMAIN graphs.skaterSamples :
                                  graphs.skaterSamples[i].time <= lastArgs'[1]}))
       /\ graphs'.sampleTime = lastArgs'[1]]_vars

C29_SampleTimesIncreaseBelowMaxTime ==
  [][/\ \A i \in DOMAIN graphs'.skaterSamples :
          /\ graphs'.skaterSamples[i].time < MaxTime
          /\ graphs'.skaterSamples[i].time <= graphs'.runningTime
          /\ i > 1 => graphs'.skaterSamples[i - 1].time
                        < graphs'.skaterSamples[i].time
     /\ (lastOp' = "step" /\ graphs'.stepModelCalls > 0) =>
          /\ graphs'.runningTime = graphs.runningTime + Dt
          /\ IF graphs'.runningTime < MaxTime
               THEN /\ Len(graphs'.skaterSamples)
                         = Len(graphs.skaterSamples) + 1
                    /\ SubSeq(graphs'.skaterSamples, 1,
                               Len(graphs.skaterSamples)) = graphs.skaterSamples
                    /\ graphs'.skaterSamples[Len(graphs'.skaterSamples)].time
                         = graphs'.runningTime
               ELSE graphs'.skaterSamples = graphs.skaterSamples
     /\ lastOp' = "clearEnergyData" =>
          graphs'.skaterSamples = << >> /\ graphs'.runningTime = 0]_vars

\* a tick has recorded a second sample, of a moving skater, after the first
C29_Witness ==
  /\ lastOp = "step"
  /\ Len(graphs.skaterSamples) = 2
  /\ graphs.skaterSamples[1].time = Dt
  /\ graphs.skaterSamples[2].time = 2 * Dt
  /\ graphs.runningTime = 2 * Dt
  /\ graphs.skaterSamples[2].state.parametricSpeed # 0

----------------------------------------------------------------------------
(* Properties of the head position *)

\* C30: after reset, resetPosition, returnToInitialPosition, returnSkater
\* and released have returned, headPosition is getHeadPosition() of the
\* skater's current position, angle and mass.
C30_HeadPositionCurrentAfterCommand ==
  lastOp \in UpdatingOps => skater.headPosition = getHeadPosition(skater)

----------------------------------------------------------------------------
(* Properties of track dragging and of the control points' gestures *)

\* the squared distances between the end points of track t and the end
\* points of the other physical tracks of the model
endPointDistances(g, tr, contained, t) ==
  {distanceSquared(tr[t][e], position(g, tr, o, k)) :
     e \in EndPoints, o \in getPhysicalTracks(contained, g) \ {t},
     k \in EndPoints}

\* no end point of track t has a snap target unless an end point of another
\* physical track is within snapping range, and then exactly one has, whose
\* target is an end point at the least distance
snapTargetsFollowBestDistance(g, tr, contained, t) ==
  LET distances == endPointDistances(g, tr, contained, t)
      snapped == {e \in EndPoints : g.track[t].snapTarget[e] # NoPoint}
      within == \E d \in distances : d < SnapRange * SnapRange
  IN  /\ Cardinality(snapped) <= 1
      /\ ~within => snapped = {}
      /\ (within /\ 0 \notin distances) => snapped # {}
      /\ \A e \in snapped :
           LET target == g.track[t].snapTarget[e]
           IN  /\ target[1] \in getPhysicalTracks(contained, g) \ {t}
               /\ target[2] \in EndPoints
               /\ within
               /\ 0 \notin distances =>
                    \A d \in distances :
                      distanceSquared(tr[t][e],
                                      position(g, tr, target[1], target[2]))
                        <= d

\* C26: after every drag event of a track dragged as a whole, at most one of
\* its two end control points has a snap target; one has only if the best
\* distance between an end point of the track and an end point of another
\* physical track is below 1, and neither has otherwise.
C26_WholeTrackDragSnapsAtMostOneEnd ==
  [][(/\ lastOp' = "controlPointDrag"
      /\ Len(gesture'.track[lastArgs'[1]].forwarded)
           > Len(gesture.track[lastArgs'[1]].forwarded))
       => snapTargetsFollowBestDistance(gesture', tracks', containedTracks',
                                        lastArgs'[1])]_vars

\* the track from the toolbox has been dragged by its left end to where that
\* end is half a metre from the right end of the first track, and has snapped
\* to it; its other end has no snap target
C26_Witness ==
  /\ lastOp = "controlPointDrag"
  /\ lastArgs[1] \in ToolboxTracks
  /\ gesture.track[lastArgs[1]].forwarded
       = << <<"trackDragStarted", 1>>, <<"trackDragged", 1>> >>
  /\ tracks[lastArgs[1]][1] = <<1300, 600>>
  /\ gesture.track[lastArgs[1]].snapTarget[1] = <<1, 3>>
  /\ gesture.track[lastArgs[1]].snapTarget[3] = NoPoint

\* Bounds2.containsPoint
inside(bounds, pt) ==
  /\ bounds.minX <= pt[1] /\ pt[1] <= bounds.maxX
  /\ bounds.minY <= pt[2] /\ pt[2] <= bounds.maxY

\* the snap target of end point i of track t is an end point of another
\* physical track nearest to it if that is within snapping range, and there
\* is none otherwise
snapTargetIsNearestEndPoint(g, tr, contained, t, i) ==
  LET others == getPhysicalTracks(contained, g) \ {t}
      distances == {distanceSquared(tr[t][i], position(g, tr, o, k)) :
                      o \in others, k \in EndPoints}
      target == g.track[t].snapTarget[i]
  IN  IF \E d \in distances : d < SnapRange * SnapRange
        THEN /\ target # NoPoint
             /\ target[1] \in others
             /\ target[2] \in EndPoints
             /\ \A d \in distances :
                  distanceSquared(tr[t][i],
                                  position(g, tr, target[1], target[2])) <= d
        ELSE target = NoPoint

\* C27: after every drag event of a control point of a physical, dropped
\* track of the model, the control point's source position has y >= 0 and is
\* inside the control point's limit bounds if it has them and inside the
\* available model bounds otherwise; the snap target of an end point is then
\* the nearest end control point of another physical track if that is less
\* than 1 away, and null otherwise.
C27_ControlPointDragStaysInBoundsAndSnaps ==
  [][(/\ lastOp' = "controlPointDrag"
      /\ lastArgs'[1] \in containedTracks
      /\ gesture.track[lastArgs'[1]].physical
      /\ gesture.track[lastArgs'[1]].dropped)
       => /\ tracks'[lastArgs'[1]][lastArgs'[2]][2] >= 0
          /\ inside(IF limitBounds(lastArgs'[1], lastArgs'[2]) # Undefined
                      THEN limitBounds(lastArgs'[1], lastArgs'[2])[1]
                      ELSE AvailableModelBounds,
                    tracks'[lastArgs'[1]][lastArgs'[2]])
          /\ lastArgs'[2] \in EndPoints
               => snapTargetIsNearestEndPoint(gesture', tracks',
                                              containedTracks',
                                              lastArgs'[1], lastArgs'[2])]_vars

\* the middle control point of the premade track has been dragged towards a
\* point outside its limit bounds and stopped at their corner; then the left
\* end of the dropped track has been dragged to half a metre from the right
\* end of the premade track and has that end as its snap target
C27_Witness ==
  /\ lastOp = "controlPointDrag"
  /\ lastArgs = <<3, 1, <<1300, 600>> >>
  /\ tracks[3][1] = <<1300, 600>>
  /\ gesture.track[3].snapTarget[1] = <<1, 3>>
  /\ tracks[1][2] = <<800, 400>>
  /\ gesture.track[1].dragEvents[2] = 1

\* what the gestures on the control points of track t have passed on to the
\* track drag handler in this step
forwardedInStep(t) ==
  SubSeq(gesture'.track[t].forwarded,
         Len(gesture.track[t].forwarded) + 1,
         Len(gesture'.track[t].forwarded))

\* C28: while a track of the model is dragged as a whole, of the gestures on
\* its control points only the one whose start found track.dragSource null,
\* and set it, passes trackDragStarted, trackDragged and trackDragEnded on to
\* the track drag handler; the start, drag and end events of every other
\* gesture on the track change nothing, however the callbacks interleave.
C28_OnlyDragSourceForwardsTrackDrag ==
  [][(/\ lastOp' \in {"controlPointStart", "controlPointDrag",
                      "controlPointEnd"}
      /\ lastArgs'[1] \in containedTracks
      /\ dragsWholeTrack(gesture, lastArgs'[1]))
       => LET t == lastArgs'[1]
              i == lastArgs'[2]
              source == gesture.track[t].dragSource
          IN  /\ lastOp' = "controlPointStart" =>
                   IF source = NoSource
                     THEN /\ gesture'.track[t].dragSource = i
                          /\ forwardedInStep(t) = << <<"trackDragStarted", i>> >>
                     ELSE NothingMutated(t)
              /\ lastOp' = "controlPointDrag" =>
                   IF source = i
                     THEN forwardedInStep(t) = << <<"trackDragged", i>> >>
                     ELSE NothingMutated(t)
              /\ lastOp' = "controlPointEnd" =>
                   IF source = i
                     THEN forwardedInStep(t) = << <<"trackDragEnded", i>> >>
                     ELSE NothingMutated(t)
              /\ \A k \in 1 .. Len(gesture'.track[t].forwarded) :
                   gesture'.track[t].forwarded[k][2]
                     = gesture'.track[t].dragSource]_vars

\* two control points of the track from the toolbox are held, the left end
\* first; the left end's drag has moved the track, and the drag of the right
\* end that followed has been ignored
C28_Witness ==
  /\ lastOp = "controlPointDrag"
  /\ lastArgs = <<2, 3, <<1300, -100>> >>
  /\ gesture.track[2].controlPointPressed[1]
  /\ gesture.track[2].controlPointPressed[3]
  /\ gesture.track[2].dragSource = 1
  /\ gesture.track[2].forwarded
       = << <<"trackDragStarted", 1>>, <<"trackDragged", 1>> >>
  /\ tracks[2] = << <<1300, 600>>, <<1500, 600>>, <<1700, 600>> >>
====
